---- MODULE Spec2Model ----
(***************************************************************************)
(* PitWall: the incident-metrics store, the pattern detector and the       *)
(* forecasting engine, as a state machine over the Forge key-value store.  *)
(*                                                                         *)
(* Timestamps are whole minutes since the epoch (the code keeps ISO        *)
(* strings and converts them with new Date(..).getTime(), modelled by      *)
(* getTime below).  A storage key that was never written reads as the      *)
(* empty list, as every reader does with `(await storage.get(k)) || []`.   *)
(* A pattern's description and recommendation are fixed texts built from   *)
(* the fields kept here and are left out of the pattern record.            *)
(***************************************************************************)
EXTENDS Integers, Sequences, FiniteSets, TLC

VARIABLES
    incidentMetrics,    \* storage 'incident-metrics'
    incidentStats,      \* storage 'incident-stats'
    detectedPatterns,   \* storage 'detected-patterns'
    usageEvents,        \* storage 'usage-events' (pattern_detected events)
    detectResult,       \* what the latest detectPatterns call returned
    pc,                 \* per analysis process: where storeIncidentMetrics stands
    trimmedMetrics,     \* per process: the list storeIncidentMetrics is about to write
    now,                \* the wall clock, in minutes
    started,            \* analyses started so far (also numbers the issue keys)
    mttrRecords,        \* storage 'mttr-records'
    series,             \* a time series handed to one step of the forecasting pipeline
    scoreArgs,          \* the arguments of a calculateConfidenceScore call
    trendArgs,          \* a predicted value, a current value and a confidence to classify
    ret,                \* what the latest forecasting call returned
    rateLimits,         \* storage 'rate-limits'
    recentAllowed,      \* per key: the calls of the last hour answered allowed = true
    limitRet,           \* what the latest checkLimit call returned
    jobQueue,           \* storage 'job-queue'
    jobClock,           \* the clock of the job queue: the completedAt times taken so far
    jobRet,             \* what the latest job-queue call did
    workerPc,           \* per worker: where its processNext call stands
    workerQueue,        \* per worker: the queue array its processNext call holds
    workerJob           \* per worker: the index of nextJob in that array

patternVars == <<incidentStats, detectedPatterns, usageEvents, detectResult, pc,
                 trimmedMetrics, now, started>>

forecastInputs == <<mttrRecords, series, scoreArgs, trendArgs>>

forecastVars == <<forecastInputs, ret>>

rateVars == <<rateLimits, recentAllowed, limitRet>>

jobVars == <<jobQueue, jobClock, jobRet, workerPc, workerQueue, workerJob>>

vars == <<incidentMetrics, patternVars, forecastVars, rateVars, jobVars>>

----------------------------------------------------------------------------
\* Bounds of the model

NumProcs == 2
MaxAnalyses == 4
MaxDetections == 1
MaxActionLen == 5
MaxPriorityCount == 5
MaxCommitLen == 5
MaxCascadeCount == 3
MaxMixedCount == 3
MaxHourTotal == 37
MaxHourGroup == 11
MaxSeriesLen == 10
MaxMttr == 22
MaxDays == 20
MaxTicks == 1
MaxShapedLen == 24
MaxLongLen == 90
MaxRateMinutes == 60
MaxOtherCalls == 1
NumWorkers == 4
MaxJobs == 2
MaxJobClock == 2
MaxAttemptsAsked == 1

Procs == 1..NumProcs

Workers == 1..NumWorkers

----------------------------------------------------------------------------
\* Program constants

MetricsCap == 100
maxConcurrentJobs == 3
defaultMaxAttempts == 3
CascadeWindowMinutes == 15
MsPerMinute == 60000
RecurringMin == 3
TimeBasedMin == 3
HotspotMin == 5
CascadeMin == 3
DeploymentMin == 3
SuspectCommitsMin == 2
MinIncidents == 3
HighRiskScore == 70
MaxEvents == 10000
MinutesPerDay == 1440
EpochWeekday == 4
FP == 100
OutlierMinPoints == 10
OutlierZThreshold == 3
OutlierIqrTimesTwo == 3
MinDataPoints == 15
DecomposeMinPoints == 14
TrendWindow == 14
MapeMinPoints == 10
MapeDefault == 20
MapeWindow == 7
MapeCap == 100
DriftMinPoints == 20
DriftThresholdTenths == 3
SmallSamplePoints == 30
DriftPenalty == 20
SeasonalityBonus == 10
DefaultConfidence == 50
SqrtCeiling == 46340
ArimaMinPoints == 10
ProphetMinPoints == 5
WeightArima == 35
WeightProphet == 30
WeightExponential == 20
WeightLinear == 15
IntervalZTimes100 == 196
CurrentValueDays == 7
StableBelowPercent == 5
CriticalAbovePercent == 20
CriticalAboveConfidence == 70
Limit == 100
WindowMinutes == 60
RateTickMinutes == WindowMinutes \div 2

----------------------------------------------------------------------------
\* Small helpers

Min(a, b) == IF a <= b THEN a ELSE b

Max(a, b) == IF a >= b THEN a ELSE b

Range(s) == {s[i] : i \in DOMAIN s}

\* Array.prototype.slice(-k): the last k elements
SliceLast(s, k) == IF Len(s) <= k THEN s ELSE SubSeq(s, Len(s) - k + 1, Len(s))

RECURSIVE Concat(_)
\* the elements of a sequence of sequences, in order
Concat(ss) == IF ss = <<>> THEN <<>> ELSE Head(ss) \o Concat(Tail(ss))

\* The keys of a Map in iteration order: each key once, in first-insertion order
DistinctInOrder(s) ==
    LET first == SelectSeq([i \in 1..Len(s) |-> i],
                           LAMBDA i : \A j \in 1..(i - 1) : s[j] # s[i])
    IN [k \in 1..Len(first) |-> s[first[k]]]

\* new Date(timestamp).getTime(), in milliseconds
getTime(ts) == ts * MsPerMinute

\* new Date(timestamp).getHours()
getHours(ts) == (ts \div 60) % 24

IssueKeyOf(i) == i.issueKey

\* a stable ascending sort of <<key, element>> pairs by key: a pair moves
\* ahead of the pairs of a larger key only
SortKeyed(s) == SortSeq(s, LAMBDA a, b : a[1] < b[1])

\* the elements of a sequence of <<key, element>> pairs
Unkeyed(keyed) == [i \in 1..Len(keyed) |-> keyed[i][2]]

TimeKey(i) == getTime(i.timestamp)

\* sort((a, b) => new Date(a.timestamp).getTime() - new Date(b.timestamp).getTime())
SortByTime(s) ==
    Unkeyed(SortKeyed([i \in 1..Len(s) |-> <<TimeKey(s[i]), s[i]>>]))

RiskKey(p) == p.riskScore

NegRiskKey(p) == 0 - p.riskScore

SortByRiskAscending(ps) ==
    Unkeyed(SortKeyed([i \in 1..Len(ps) |-> <<RiskKey(ps[i]), ps[i]>>]))

\* descending by risk, but equal scores come out in reverse order
SortByRiskReversingTies(ps) ==
    LET asc == SortByRiskAscending(ps)
    IN [i \in 1..Len(ps) |-> asc[Len(ps) + 1 - i]]

\* patterns.sort((a, b) => b.riskScore - a.riskScore)
SortByRisk(ps) ==
    Unkeyed(SortKeyed([i \in 1..Len(ps) |-> <<NegRiskKey(ps[i]), ps[i]>>]))

\* String.prototype.toLowerCase on the labels the model uses
toLowerCase(s) ==
    CASE s = "Rollback" -> "rollback"
      [] s = "Restart" -> "restart"
      [] s = "Unknown" -> "unknown"
      [] s = "Highest" -> "highest"
      [] s = "High" -> "high"
      [] s = "Low" -> "low"
      [] OTHER -> s

----------------------------------------------------------------------------
\* The pattern detectors

\* incident.recommendedAction || 'Unknown' ("" stands for a missing action)
ActionOf(i) == IF i.recommendedAction = "" THEN "Unknown" ELSE i.recommendedAction

\* incident.priority || 'Unknown'
PriorityOf(i) == IF i.priority = "" THEN "Unknown" ELSE i.priority

HourOf(i) == getHours(i.timestamp)

MkPattern(id, type, group, first, last, score) ==
    [patternId |-> id,
     patternType |-> type,
     occurrences |-> Len(group),
     firstSeen |-> first.timestamp,
     lastSeen |-> last.timestamp,
     affectedComponents |-> {g.issueKey : g \in Range(group)},
     riskScore |-> score,
     relatedIncidents |-> [k \in 1..Len(group) |-> IssueKeyOf(group[k])]]

RecurringRisk(n) == Min(40 + n * 10, 95)

RecurringQualifiesOffByOne(group) == Len(group) >= RecurringMin - 1

RecurringQualifies(group) == Len(group) >= RecurringMin

detectRecurringErrors(incidents) ==
    LET actions == DistinctInOrder([k \in 1..Len(incidents) |-> ActionOf(incidents[k])])
        groupOf(a) == SelectSeq(incidents, LAMBDA i : ActionOf(i) = a)
        emit(a) ==
            IF RecurringQualifies(groupOf(a))
            THEN LET group == SortByTime(groupOf(a))
                 IN <<MkPattern(<<"recurring_", toLowerCase(a)>>, "recurring_error",
                                group, group[1], group[Len(group)],
                                RecurringRisk(Len(group)))>>
            ELSE <<>>
    IN Concat([k \in 1..Len(actions) |-> emit(actions[k])])

TimeBasedRisk(n) == Min(30 + n * 5, 80)

\* group.length >= (incidents.length / 24) * 2 && group.length >= 3
TimeBasedQualifiesStrict(count, total) == 12 * count > total /\ count >= TimeBasedMin

TimeBasedQualifies(count, total) == 12 * count >= total /\ count >= TimeBasedMin

detectTimeBasedPatterns(incidents) ==
    LET hours == DistinctInOrder([k \in 1..Len(incidents) |-> HourOf(incidents[k])])
        groupOf(h) == SelectSeq(incidents, LAMBDA i : HourOf(i) = h)
        emit(h) ==
            LET group == groupOf(h)
            IN IF TimeBasedQualifies(Len(group), Len(incidents))
               THEN <<MkPattern(<<"timebased_hour_", h>>, "time_based",
                                group, group[1], group[Len(group)],
                                TimeBasedRisk(Len(group)))>>
               ELSE <<>>
    IN Concat([k \in 1..Len(hours) |-> emit(hours[k])])

HotspotRisk(n) == Min(50 + n * 8, 100)

HotspotQualifiesAnyPriority(priority, count) == count >= HotspotMin

HotspotQualifies(priority, count) ==
    count >= HotspotMin /\ (priority = "Highest" \/ priority = "High")

detectComponentHotspots(incidents) ==
    LET priorities == DistinctInOrder([k \in 1..Len(incidents) |-> PriorityOf(incidents[k])])
        groupOf(p) == SelectSeq(incidents, LAMBDA i : PriorityOf(i) = p)
        emit(p) ==
            LET group == groupOf(p)
            IN IF HotspotQualifies(p, Len(group))
               THEN <<MkPattern(<<"hotspot_", toLowerCase(p)>>, "component_hotspot",
                                group, group[1], group[Len(group)],
                                HotspotRisk(Len(group)))>>
               ELSE <<>>
    IN Concat([k \in 1..Len(priorities) |-> emit(priorities[k])])

CascadeRisk(n) == Min(60 + n * 10, 100)

CascadePattern(group) ==
    MkPattern(<<"cascade_", group[1].timestamp>>, "cascading_failure",
              group, group[1], group[Len(group)], CascadeRisk(Len(group)))

\* timeDiff <= cascadeWindow, the gap taken from the group's last member
InCascadeWindowFromFirst(group, next) ==
    getTime(next.timestamp) - getTime(group[1].timestamp)
        <= CascadeWindowMinutes * MsPerMinute

InCascadeWindow(group, next) ==
    getTime(next.timestamp) - getTime(group[Len(group)].timestamp)
        <= CascadeWindowMinutes * MsPerMinute

RECURSIVE CascadeLoop(_, _, _, _)
\* the for loop and the check of the last group
CascadeLoop(sorted, i, cascadeGroup, patterns) ==
    IF i > Len(sorted)
    THEN IF Len(cascadeGroup) >= CascadeMin
         THEN Append(patterns, CascadePattern(cascadeGroup))
         ELSE patterns
    ELSE IF cascadeGroup = <<>>
    THEN CascadeLoop(sorted, i + 1, <<sorted[i]>>, patterns)
    ELSE IF InCascadeWindow(cascadeGroup, sorted[i])
    THEN CascadeLoop(sorted, i + 1, Append(cascadeGroup, sorted[i]), patterns)
    ELSE CascadeLoop(sorted, i + 1, <<sorted[i]>>,
                     IF Len(cascadeGroup) >= CascadeMin
                     THEN Append(patterns, CascadePattern(cascadeGroup))
                     ELSE patterns)

\* incidents.sort(..) sorts the caller's array in place: the argument is the
\* array as the sort left it
detectCascadingFailures(sortedIncidents) == CascadeLoop(sortedIncidents, 1, <<>>, <<>>)

DeploymentRisk(n) == Min(45 + n * 7, 90)

HasSuspectCommitsAny(i) == i.suspectCommits >= 1

\* (i.suspectCommits || 0) >= 2
HasSuspectCommits(i) == i.suspectCommits >= SuspectCommitsMin

detectDeploymentCorrelations(incidents) ==
    LET incidentsWithCommits == SelectSeq(incidents, HasSuspectCommits)
    IN IF Len(incidentsWithCommits) >= DeploymentMin
       THEN <<MkPattern(<<"deployment_correlation">>, "deployment_correlation",
                        incidentsWithCommits, incidentsWithCommits[1],
                        incidentsWithCommits[Len(incidentsWithCommits)],
                        DeploymentRisk(Len(incidentsWithCommits)))>>
       ELSE <<>>

\* The patterns array as detectPatterns builds it, before the final sort.  The
\* cascading detector sorts `incidents` in place, so the deployment detector,
\* which runs after it, reads the list in time order.
ComputePatterns(incidents) ==
    LET sorted == SortByTime(incidents)
    IN detectRecurringErrors(incidents)
       \o detectTimeBasedPatterns(incidents)
       \o detectComponentHotspots(incidents)
       \o detectCascadingFailures(sorted)
       \o detectDeploymentCorrelations(sorted)

TooFewIncidents(incidents) == Len(incidents) < MinIncidents

\* UsageAnalytics.trackEvent('pattern_detected', 'system', {...})
PatternEvent(patterns, incidents) ==
    [eventType |-> "pattern_detected",
     patternCount |-> Len(patterns),
     highRiskPatterns |-> Len(SelectSeq(patterns, LAMBDA p : p.riskScore >= HighRiskScore)),
     totalIncidents |-> Len(incidents),
     success |-> TRUE]

NoResult == [called |-> FALSE, patterns |-> <<>>, totalIncidents |-> 0]

EarlyResultZeroTotal(incidents) ==
    [called |-> TRUE, patterns |-> <<>>, totalIncidents |-> 0]

\* the return of detectPatterns when fewer than 3 incidents are stored
EarlyResult(incidents) ==
    [called |-> TRUE, patterns |-> <<>>, totalIncidents |-> Len(incidents)]

\* the return of detectPatterns after a full run
FullResult(patterns, incidents) ==
    [called |-> TRUE, patterns |-> SortByRisk(patterns),
     totalIncidents |-> Len(incidents)]

----------------------------------------------------------------------------
\* The incident analysis (storeIncidentMetrics) and the detection run

\* Math.round(a / b) for a >= 0, b > 0
RoundDiv(a, b) == (2 * a + b) \div (2 * b)

RECURSIVE SumConfidence(_)
SumConfidence(ms) ==
    IF ms = <<>> THEN 0 ELSE ms[1].aiConfidence + SumConfidence(Tail(ms))

\* what one analysis found: the fields analyzeIncident hands to storeIncidentMetrics
AnalysisInputs ==
    {[priority |-> "High", aiConfidence |-> 80, suspectCommits |-> 2,
      runbooksFound |-> 1, recommendedAction |-> "Rollback"],
     [priority |-> "Low", aiConfidence |-> 55, suspectCommits |-> 0,
      runbooksFound |-> 0, recommendedAction |-> ""]}

\* minutes between two analyses
Deltas == {10}

Metric(key, ts, in) ==
    [issueKey |-> key, timestamp |-> ts, priority |-> in.priority,
     aiConfidence |-> in.aiConfidence, suspectCommits |-> in.suspectCommits,
     runbooksFound |-> in.runbooksFound, recommendedAction |-> in.recommendedAction]

\* updatedMetrics.slice(-100)
Trim(updated) == SliceLast(updated, MetricsCap)

\* analyzeIncident stamps the metric, storeIncidentMetrics reads the list
StoreGet(p) ==
    /\ pc[p] = "idle"
    /\ started < MaxAnalyses
    /\ \E in \in AnalysisInputs, d \in Deltas :
          /\ now' = now + d
          /\ trimmedMetrics' = [trimmedMetrics EXCEPT
                 ![p] = Trim(Append(incidentMetrics, Metric(started + 1, now + d, in)))]
    /\ started' = started + 1
    /\ pc' = [pc EXCEPT ![p] = "got"]
    /\ UNCHANGED <<incidentMetrics, incidentStats, detectedPatterns, usageEvents,
                   detectResult, forecastVars, rateVars, jobVars>>

\* storage.set('incident-metrics', trimmedMetrics)
StoreSet(p) ==
    /\ pc[p] = "got"
    /\ incidentMetrics' = trimmedMetrics[p]
    /\ pc' = [pc EXCEPT ![p] = "stored"]
    /\ UNCHANGED <<incidentStats, detectedPatterns, usageEvents, detectResult,
                   trimmedMetrics, now, started, forecastVars, rateVars, jobVars>>

\* storage.set('incident-stats', {...})
StoreStats(p) ==
    /\ pc[p] = "stored"
    /\ incidentStats' =
          [totalIncidents |-> Len(trimmedMetrics[p]),
           avgConfidence |-> RoundDiv(SumConfidence(trimmedMetrics[p]),
                                      Len(trimmedMetrics[p]))]
    /\ pc' = [pc EXCEPT ![p] = "idle"]
    /\ trimmedMetrics' = [trimmedMetrics EXCEPT ![p] = <<>>]
    /\ UNCHANGED <<incidentMetrics, detectedPatterns, usageEvents, detectResult,
                   now, started, forecastVars, rateVars, jobVars>>

\* PatternDetector.detectPatterns, with healthy storage.  The read, the write of
\* 'detected-patterns' and the usage event are taken as one step.
DetectPatterns ==
    LET incidents == incidentMetrics
    IN IF TooFewIncidents(incidents)
       THEN /\ detectResult' = EarlyResult(incidents)
            /\ UNCHANGED <<incidentMetrics, incidentStats, detectedPatterns, usageEvents,
                           pc, trimmedMetrics, now, started, forecastVars, rateVars, jobVars>>
       ELSE LET patterns == ComputePatterns(incidents)
            IN /\ Len(usageEvents) < MaxDetections
               /\ detectedPatterns' = patterns
               /\ usageEvents' =
                     SliceLast(Append(usageEvents, PatternEvent(patterns, incidents)),
                               MaxEvents)
               /\ detectResult' = FullResult(patterns, incidents)
               /\ UNCHANGED <<incidentMetrics, incidentStats, pc, trimmedMetrics,
                              now, started, forecastVars, rateVars, jobVars>>

\* PatternDetector.getPatterns
getPatterns == detectedPatterns

NoStats == [totalIncidents |-> 0, avgConfidence |-> 0]

\* nothing analysed, detected or forecast yet
InitDetectorVars ==
    /\ incidentStats = NoStats
    /\ detectedPatterns = <<>>
    /\ usageEvents = <<>>
    /\ detectResult = NoResult
    /\ pc = [p \in Procs |-> "idle"]
    /\ trimmedMetrics = [p \in Procs |-> <<>>]
    /\ started = 0

InitPatternVars ==
    /\ InitDetectorVars
    /\ now = 0

NoScoreArgs == [n |-> 0, mape |-> 0, strength |-> 0, drift |-> FALSE]

NoReturn == [op |-> "none"]

NoTrendArgs == [predicted |-> 0, current |-> 0, confidence |-> 0]

InitForecastVars ==
    /\ mttrRecords = <<>>
    /\ series = <<>>
    /\ scoreArgs = NoScoreArgs
    /\ trendArgs = NoTrendArgs
    /\ ret = NoReturn

\* the keys checkLimit is called with
RateKeys == {"api-key", "other-key"}

NoLimitReturn == [called |-> FALSE, key |-> "", at |-> 0, allowed |-> FALSE, remaining |-> 0]

InitRateVars ==
    /\ rateLimits = <<>>
    /\ recentAllowed = [key \in RateKeys |-> <<>>]
    /\ limitRet = NoLimitReturn

NoJobReturn == [op |-> "none", started |-> 0, returned |-> "none"]

\* an empty queue and no processNext call under way
InitJobVars ==
    /\ jobQueue = <<>>
    /\ jobClock = 0
    /\ jobRet = NoJobReturn
    /\ workerPc = [w \in Workers |-> "idle"]
    /\ workerQueue = [w \in Workers |-> <<>>]
    /\ workerJob = [w \in Workers |-> 0]

Init ==
    /\ incidentMetrics = <<>>
    /\ InitPatternVars
    /\ InitForecastVars
    /\ InitRateVars
    /\ InitJobVars

Next ==
    \/ \E p \in Procs : StoreGet(p)
    \/ \E p \in Procs : StoreSet(p)
    \/ \E p \in Procs : StoreStats(p)
    \/ DetectPatterns

Spec == Init /\ [][Next]_vars

----------------------------------------------------------------------------
\* The detectors on stored lists of every shape: the store holds a list that
\* earlier analyses left there, and the detection runs on it.

Stored(profile, key) ==
    [issueKey |-> key, timestamp |-> profile[1], priority |-> profile[2],
     aiConfidence |-> 80, suspectCommits |-> profile[4], runbooksFound |-> 0,
     recommendedAction |-> profile[3]]

\* every list of at most n incidents drawn from the profiles, keyed by position
ListsOver(profiles, n) ==
    UNION {{[i \in 1..k |-> Stored(f[i], i)] : f \in [1..k -> profiles]} : k \in 0..n}

ActionProfiles ==
    {<<0, "Low", "", 0>>, <<5, "Low", "Unknown", 1>>, <<600, "Low", "Rollback", 0>>}

PriorityProfiles ==
    <<<<0, "Highest", "Rollback", 0>>, <<100, "High", "Restart", 0>>,
      <<200, "Low", "", 0>>>>

CommitProfiles ==
    {<<0, "Low", "Restart", 1>>, <<1000, "High", "Rollback", 2>>, <<2000, "", "", 3>>}

CascadeProfiles ==
    <<<<0, "Low", "Restart", 0>>, <<8, "Low", "Restart", 0>>,
      <<23, "Low", "Restart", 0>>, <<39, "Low", "Restart", 0>>>>

MixedProfiles ==
    <<<<0, "High", "Rollback", 2>>, <<100, "Highest", "Rollback", 2>>,
      <<105, "", "Restart", 3>>>>

\* counts[j] incidents of the j-th profile, profile after profile, or the same
\* list stored in the opposite order
CountedList(profiles, counts, reversed) ==
    LET blocks == Concat([j \in 1..Len(profiles) |-> [c \in 1..counts[j] |-> profiles[j]]])
        n == Len(blocks)
    IN [i \in 1..n |-> Stored(IF reversed THEN blocks[n + 1 - i] ELSE blocks[i], i)]

\* every such list with at most maxCount incidents of each profile
CountedLists(profiles, maxCount) ==
    {CountedList(profiles, counts, reversed) :
        counts \in [1..Len(profiles) -> 0..maxCount], reversed \in BOOLEAN}

\* k incidents in hour 0 of successive days, then n - k spread over hours 1..23
HourList(n, k) ==
    [i \in 1..n |->
        IF i <= k THEN Stored(<<1440 * i, "Low", "", 0>>, i)
        ELSE Stored(<<60 * (1 + ((i - k - 1) % 23)), "Low", "", 0>>, i)]

HourLists == {HourList(n, k) : n \in 0..MaxHourTotal, k \in 0..MaxHourGroup}

DetectInputs ==
    ListsOver(ActionProfiles, MaxActionLen)
    \cup CountedLists(PriorityProfiles, MaxPriorityCount)
    \cup ListsOver(CommitProfiles, MaxCommitLen)
    \cup CountedLists(CascadeProfiles, MaxCascadeCount)
    \cup CountedLists(MixedProfiles, MaxMixedCount)
    \cup HourLists

InitDetect ==
    /\ incidentMetrics \in DetectInputs
    /\ InitPatternVars
    /\ InitForecastVars
    /\ InitRateVars
    /\ InitJobVars

NextDetect == DetectPatterns

SpecDetect == InitDetect /\ [][NextDetect]_vars

----------------------------------------------------------------------------
\* The forecasting engine.  A DataPoint is [timestamp, value]: the timestamp
\* in minutes, the value a whole number (an MTTR in rounded minutes, or a
\* count of incidents).  Quantities the code keeps as fractions (means,
\* percentages, strengths) are kept in units of 1/FP; comparisons of
\* z-scores, IQR fences and the drift shift are cross-multiplied so that they
\* are decided on whole numbers.

Abs(x) == IF x < 0 THEN -x ELSE x

RECURSIVE SumRange(_, _, _)
\* s[lo] + ... + s[hi], by halves
SumRange(s, lo, hi) ==
    IF lo > hi THEN 0
    ELSE IF lo = hi THEN s[lo]
    ELSE SumRange(s, lo, (lo + hi) \div 2) + SumRange(s, (lo + hi) \div 2 + 1, hi)

\* values.reduce((a, b) => a + b, 0)
Sum(s) == SumRange(s, 1, Len(s))

SumSq(s) == Sum([i \in 1..Len(s) |-> s[i] * s[i]])

\* data.map((d) => d.value)
Values(data) == [i \in 1..Len(data) |-> data[i].value]

\* Array.prototype.slice(start, end): 0-based, end exclusive
Slice(s, start, end) == SubSeq(s, start + 1, end)

\* [...values].sort((a, b) => a - b)
SortNumbers(vals) == SortSeq(vals, LAMBDA a, b : a < b)

\* the elements of data at the positions i..Len(data) that are in S, in order
SelectIndices(data, S, i) ==
    LET kept == SelectSeq([k \in 1..Len(data) |-> k], LAMBDA k : k >= i /\ k \in S)
    IN [j \in 1..Len(kept) |-> data[kept[j]]]

\* new Date(timestamp).getDay(); the epoch was a Thursday
getDay(ts) == (EpochWeekday + ts \div MinutesPerDay) % 7

\* Math.round of a non-negative quantity kept in units of 1/FP
RoundFP(x) == (x + FP \div 2) \div FP

\* a z-score that divides by 1 whenever stdDev is below 1
ZScoreFlaggedAgainstOne(val, n, S, V) ==
    LET d == n * val - S
    IN IF V < n * n THEN Abs(d) > OutlierZThreshold * n
       ELSE d * d > OutlierZThreshold * OutlierZThreshold * V

\* |val - mean| / (stdDev || 1) > OUTLIER_Z_THRESHOLD for a series of n values
\* with sum S and V = n * (sum of squares) - S^2: mean = S/n, stdDev = sqrt(V)/n
ZScoreFlagged(val, n, S, V) ==
    LET d == n * val - S
    IN IF V = 0 THEN Abs(d) > OutlierZThreshold * n
       ELSE d * d > OutlierZThreshold * OutlierZThreshold * V

\* the positions the z-score method adds to outlierIndices
ZScoreIndices(vals) ==
    LET n == Len(vals)
        S == Sum(vals)
        V == n * SumSq(vals) - S * S
    IN {i \in 1..n : ZScoreFlagged(vals[i], n, S, V)}

\* val < q1 - 1.5 * iqr || val > q3 + 1.5 * iqr
IqrFlagged(val, q1, q3) ==
    \/ 2 * val < 2 * q1 - OutlierIqrTimesTwo * (q3 - q1)
    \/ 2 * val > 2 * q3 + OutlierIqrTimesTwo * (q3 - q1)

\* the positions the IQR method adds to outlierIndices
IqrIndices(vals) ==
    LET sorted == SortNumbers(vals)
        q1 == sorted[Len(sorted) \div 4 + 1]
        q3 == sorted[(3 * Len(sorted)) \div 4 + 1]
    IN {i \in 1..Len(vals) : IqrFlagged(vals[i], q1, q3)}

OutlierIndices(vals) == ZScoreIndices(vals) \cup IqrIndices(vals)

\* a cleaner that drops what either method flags but lists only what the
\* z-score flags
detectAndRemoveOutliersListingZScoreOnly(data) ==
    IF Len(data) < OutlierMinPoints
    THEN [original |-> data, cleaned |-> data, outliers |-> <<>>, outliersRemoved |-> 0]
    ELSE LET vals == Values(data)
             listed == ZScoreIndices(vals)
         IN [original |-> data,
             cleaned |-> SelectIndices(data, (1..Len(data)) \ OutlierIndices(vals), 1),
             outliers |-> SelectIndices(data, listed, 1),
             outliersRemoved |-> Cardinality(listed)]

detectAndRemoveOutliers(data) ==
    IF Len(data) < OutlierMinPoints
    THEN [original |-> data, cleaned |-> data, outliers |-> <<>>, outliersRemoved |-> 0]
    ELSE LET flagged == OutlierIndices(Values(data))
             outliers == SelectIndices(data, flagged, 1)
         IN [original |-> data,
             cleaned |-> SelectIndices(data, (1..Len(data)) \ flagged, 1),
             outliers |-> outliers,
             outliersRemoved |-> Len(outliers)]

\* a residual that forgets the seasonal component
ResidualOfTrendOnly(val, trend, seasonal) == val - trend

\* val - (trend[i] || 0) - (seasonal[i] || 0)
Residual(val, trend, seasonal) == val - trend - seasonal

\* The seasonality strength of decomposeTimeSeries, in units of 1/FP.  The
\* trend is a centred moving average, the seasonal component the mean
\* detrended value of each weekday.
decomposeTimeSeries(data) ==
    LET n == Len(data)
        values == Values(data)
    IN IF n < DecomposeMinPoints
       THEN [trend |-> [i \in 1..n |-> values[i] * FP],
             seasonal |-> [i \in 1..n |-> 0],
             residual |-> [i \in 1..n |-> 0],
             strength |-> 0]
       ELSE LET windowSize == Min(TrendWindow, n \div 2)
                Window(i) == Slice(values,
                                   Max(0, (i - 1) - windowSize \div 2),
                                   Min(n, (i - 1) + (windowSize + 1) \div 2))
                trend == [i \in 1..n |-> (Sum(Window(i)) * FP) \div Len(Window(i))]
                detrended == [i \in 1..n |-> values[i] * FP - trend[i]]
                dayOfWeek == [i \in 1..n |-> getDay(data[i].timestamp)]
                weeklySum(d) == Sum([i \in 1..n |-> IF dayOfWeek[i] = d THEN detrended[i] ELSE 0])
                weeklyCount(d) == Cardinality({i \in 1..n : dayOfWeek[i] = d})
                weeklyPattern ==
                    [d \in 0..6 |->
                        IF weeklyCount(d) > 0 THEN weeklySum(d) \div weeklyCount(d) ELSE 0]
                seasonal == [i \in 1..n |-> weeklyPattern[dayOfWeek[i]]]
                residual == [i \in 1..n |-> Residual(values[i] * FP, trend[i], seasonal[i])]
                seasonalSq == SumSq(seasonal)
                residualSq == SumSq(residual)
                strength == IF seasonalSq + residualSq = 0 THEN 0
                            ELSE (seasonalSq * FP) \div (seasonalSq + residualSq)
            IN [trend |-> trend, seasonal |-> seasonal, residual |-> residual,
                strength |-> Min(strength, FP)]

\* the mean absolute percentage error of the naive forecast over the
\* validation window, in units of 1/FP percent
calculateMAPE(data) ==
    LET n == Len(data)
        values == Values(data)
        validationSize == Min(MapeWindow, n \div 5)
        Ape(i) == LET actual == values[i]
                      forecast == IF values[i - 1] = 0 THEN actual ELSE values[i - 1]
                  IN (Abs(actual - forecast) * FP) \div (IF actual = 0 THEN 1 ELSE Abs(actual))
        sumAPE == Sum([k \in 1..validationSize |-> Ape(n - validationSize + k)])
    IN IF n < MapeMinPoints THEN MapeDefault * FP
       ELSE Min((sumAPE * 100) \div validationSize, MapeCap * FP)

\* Math.floor(n * 0.7) in double arithmetic, for n below 400: the product
\* falls just short of the whole number 7n/10 for the lengths listed
RoundedBelowSevenTenths == {90, 170, 180, 330, 340, 350, 360}

FloorSevenTenths(n) ==
    IF n \in RoundedBelowSevenTenths THEN (7 * n) \div 10 - 1 ELSE (7 * n) \div 10

\* |recentMean - earlyMean| > DRIFT_THRESHOLD * earlyStd, cross-multiplied:
\* with sums Se, Sr over ne, nr samples and Ve = ne * (sum of squares) - Se^2,
\* 10 * |Sr * ne - Se * nr| > 3 * nr * sqrt(Ve)
DriftShifted(data) ==
    LET n == Len(data)
        splitPoint == FloorSevenTenths(n)
        early == Values(Slice(data, 0, splitPoint))
        recent == Values(Slice(data, splitPoint, n))
        ne == Len(early)
        nr == Len(recent)
        shift == Abs(Sum(recent) * ne - Sum(early) * nr)
        Ve == ne * SumSq(early) - Sum(early) * Sum(early)
    IN 100 * shift * shift > DriftThresholdTenths * DriftThresholdTenths * nr * nr * Ve

\* a drift test that does not ask for 20 samples
detectDriftAtAnyLength(data) == DriftShifted(data)

detectDrift(data) == IF Len(data) < DriftMinPoints THEN FALSE ELSE DriftShifted(data)

\* the score before it is clamped; data enters only through its length n
ConfidenceRaw(n, mape, seasonalityStrength, driftDetected) ==
    100 * FP
    - mape \div 2
    - (IF n < SmallSamplePoints THEN ((SmallSamplePoints - n) * FP) \div 2 ELSE 0)
    + seasonalityStrength * SeasonalityBonus
    - (IF driftDetected THEN DriftPenalty * FP ELSE 0)

\* a scorer that returns the score as accumulated
calculateConfidenceScoreUnclamped(n, mape, seasonalityStrength, driftDetected) ==
    ConfidenceRaw(n, mape, seasonalityStrength, driftDetected)

calculateConfidenceScore(n, mape, seasonalityStrength, driftDetected) ==
    Max(0, Min(100 * FP, ConfidenceRaw(n, mape, seasonalityStrength, driftDetected)))

Periods == {"7days", "14days", "30days"}

\* a default result that claims no confidence at all
createDefaultForecastWithoutConfidence(metric, period) ==
    [metric |-> metric,
     currentValue |-> 0,
     predictedValue |-> 0,
     confidence |-> 0,
     predictionInterval |-> [lower |-> 0, upper |-> 0],
     trend |-> "stable",
     changePercent |-> 0,
     period |-> period,
     modelAccuracy |-> MapeDefault * FP,
     driftDetected |-> FALSE,
     seasonalityStrength |-> 0]

\* createDefaultForecast(metric, 0, period): every value is 0 * something
createDefaultForecast(metric, period) ==
    [metric |-> metric,
     currentValue |-> 0,
     predictedValue |-> 0,
     confidence |-> DefaultConfidence,
     predictionInterval |-> [lower |-> 0, upper |-> 0],
     trend |-> "stable",
     changePercent |-> 0,
     period |-> period,
     modelAccuracy |-> MapeDefault * FP,
     driftDetected |-> FALSE,
     seasonalityStrength |-> 0]

\* a / b rounded down, for a divisor of either sign
Quot(a, b) == IF b < 0 THEN (0 - a) \div (0 - b) ELSE a \div b

\* Math.sqrt, rounded down to a whole number: the largest r with r * r <= x,
\* found among the multiples of 256 first and then within the 256 above it
Sqrt(x) ==
    IF x <= 0 THEN 0
    ELSE LET cap == Min(x, SqrtCeiling)
             IsRoot(r, step) == r * r <= x /\ (r + step > cap \/ (r + step) * (r + step) > x)
             coarse == CHOOSE k \in 0..(cap \div 256) : IsRoot(k * 256, 256)
         IN CHOOSE r \in (coarse * 256)..Min(coarse * 256 + 255, cap) : IsRoot(r, 1)

getPeriodDays(period) ==
    CASE period = "7days" -> 7
      [] period = "14days" -> 14
      [] OTHER -> 30

\* The engineered features: the values, the values shifted by one and by
\* seven places (the first value filling the gap) and the mean and the
\* standard deviation of the last seven values up to each position, the
\* last two in units of 1/FP.
engineerFeatures(data) ==
    LET values == Values(data)
        n == Len(values)
        first == IF n = 0 THEN 0 ELSE values[1]
        RollingWindow(i) == Slice(values, Max(0, (i - 1) - 6), i)
        RollingSpread(i) == Len(RollingWindow(i)) * SumSq(RollingWindow(i))
                                - Sum(RollingWindow(i)) * Sum(RollingWindow(i))
    IN [values |-> values,
        lag1 |-> <<first>> \o Slice(values, 0, n - 1),
        lag7 |-> [k \in 1..7 |-> first] \o Slice(values, 0, n - 7),
        rollingMean7 |-> [i \in 1..n |-> (Sum(RollingWindow(i)) * FP) \div Len(RollingWindow(i))],
        rollingStd7 |-> [i \in 1..n |-> (Sqrt(RollingSpread(i)) * FP) \div Len(RollingWindow(i))]]

\* the AR(1) prediction blended with the rolling mean, before the clamp, in
\* units of 1/FP
ArimaPrediction(features) ==
    LET values == features.values
        lag1 == features.lag1
        n == Len(values)
        sumXY == Sum([k \in 1..(n - 1) |-> lag1[k + 1] * values[k + 1]])
        sumX == Sum([k \in 1..(n - 1) |-> lag1[k + 1]])
        sumY == Sum([k \in 1..(n - 1) |-> values[k + 1]])
        sumX2 == Sum([k \in 1..(n - 1) |-> lag1[k + 1] * lag1[k + 1]])
        denominator == n * sumX2 - sumX * sumX
        phi1 == Quot((n * sumXY - sumX * sumY) * FP,
                     IF denominator = 0 THEN 1 ELSE denominator)
        constant == (sumY * FP - phi1 * sumX) \div n
        lastValue == values[n]
        lastRollingMean == IF features.rollingMean7[n] = 0 THEN lastValue * FP
                           ELSE features.rollingMean7[n]
        arPrediction == phi1 * lastValue + constant
    IN (6 * arPrediction + 4 * lastRollingMean) \div 10

forecastARIMA(features) ==
    LET n == Len(features.values)
    IN IF n < ArimaMinPoints THEN (IF n = 0 THEN 0 ELSE features.values[n] * FP)
       ELSE Max(0, ArimaPrediction(features))

\* trend extrapolated over the period plus the seasonal mean of the weekday
\* the period ends on, weighted by the strength; at is Date.now() in minutes
ProphetPrediction(decomposition, data, period, at) ==
    LET trend == decomposition.trend
        seasonal == decomposition.seasonal
        n == Len(trend)
        recentTrend == SliceLast(trend, 7)
        trendSlopeTimesDays ==
            Quot((recentTrend[Len(recentTrend)] - recentTrend[1]) * getPeriodDays(period),
                 Len(recentTrend))
        trendForecast == trend[n] + trendSlopeTimesDays
        futureDayOfWeek == getDay(at + getPeriodDays(period) * MinutesPerDay)
        sameDay == {i \in 1..Len(data) : getDay(data[i].timestamp) = futureDayOfWeek}
        seasonalSum == Sum([i \in 1..Len(data) |-> IF i \in sameDay THEN seasonal[i] ELSE 0])
        seasonalForecast == IF sameDay # {} THEN seasonalSum \div Cardinality(sameDay) ELSE 0
    IN trendForecast + (seasonalForecast * decomposition.strength) \div FP

forecastProphet(decomposition, data, period, at) ==
    LET n == Len(decomposition.trend)
    IN IF n < ProphetMinPoints THEN (IF n = 0 THEN 0 ELSE data[n].value * FP)
       ELSE Max(0, ProphetPrediction(decomposition, data, period, at))

RECURSIVE HoltLoop(_, _, _, _)
\* the loop of Holt's method over values[lo..hi], entered with the pair
\* state = <<level, trend>>: the pair after each of these values.  The pairs
\* of the second half start from the last pair of the first half.
HoltLoop(values, lo, hi, state) ==
    IF lo > hi THEN <<>>
    ELSE IF lo = hi
    THEN LET level == (3 * values[lo] * FP + 7 * (state[1] + state[2])) \div 10
             trend == ((level - state[1]) + 9 * state[2]) \div 10
         IN <<<<level, trend>>>>
    ELSE LET mid == (lo + hi) \div 2
             first == HoltLoop(values, lo, mid, state)
         IN first \o HoltLoop(values, mid + 1, hi, first[Len(first)])

\* Math.ceil(days / 7)
HorizonWeeks(period) == (getPeriodDays(period) + 6) \div 7

forecastExponentialSmoothing(data, period) ==
    LET values == Values(data)
        holt == LET states == <<<<values[1] * FP, 0>>>>
                              \o HoltLoop(values, 2, Len(values), <<values[1] * FP, 0>>)
                IN states[Len(states)]
    IN IF Len(values) = 0 THEN 0
       ELSE Max(0, holt[1] + HorizonWeeks(period) * holt[2])

\* days since the first point; the points of every series here lie whole days
\* apart
DaysSinceFirst(data) ==
    [i \in 1..Len(data) |-> (data[i].timestamp - data[1].timestamp) \div MinutesPerDay]

forecastLinearRegression(data, period) ==
    LET n == Len(data)
        X == DaysSinceFirst(data)
        Y == Values(data)
        sumX == Sum(X)
        sumY == Sum(Y)
        sumXY == Sum([i \in 1..n |-> X[i] * Y[i]])
        sumX2 == SumSq(X)
        denominator == n * sumX2 - sumX * sumX
        slope == Quot((n * sumXY - sumX * sumY) * FP,
                      IF denominator = 0 THEN 1 ELSE denominator)
        intercept == (sumY * FP - slope * sumX) \div n
        futureDay == X[n] + getPeriodDays(period)
    IN IF n < 2 THEN (IF n = 0 THEN 0 ELSE data[1].value * FP)
       ELSE Max(0, slope * futureDay + intercept)

\* the weighted sum of the four forecasts (weights in hundredths)
Ensemble(arima, prophet, exponential, linear) ==
    (WeightArima * arima + WeightProphet * prophet
     + WeightExponential * exponential + WeightLinear * linear) \div 100

\* prediction -/+ 1.96 standard deviations of the four forecasts; deviations
\* too wide to be squared in units of 1/FP are squared in whole units
calculatePredictionInterval(prediction, modelPredictions) ==
    LET count == Len(modelPredictions)
        mean == Sum(modelPredictions) \div count
        deviation == [i \in 1..count |-> Abs(modelPredictions[i] - mean)]
        scale == IF \E i \in 1..count : deviation[i] > SqrtCeiling \div 2 THEN FP ELSE 1
        variance == Sum([i \in 1..count |-> (deviation[i] \div scale)
                                            * (deviation[i] \div scale)]) \div count
        margin == (IntervalZTimes100 * Sqrt(variance) * scale) \div 100
    IN [lower |-> Max(0, prediction - margin), upper |-> prediction + margin]

\* the mean of the points younger than `days` days at time `at`, or 0
calculateCurrentValue(data, days, at) ==
    LET recent == SelectSeq(data, LAMBDA d : d.timestamp > at - days * MinutesPerDay)
    IN IF Len(recent) > 0 THEN (Sum(Values(recent)) * FP) \div Len(recent) ELSE 0

\* ((predictedValue - currentValue) / (currentValue || 1)) * 100
ChangePercent(predictedValue, currentValue) ==
    IF currentValue = 0 THEN (predictedValue - currentValue) * 100
    ELSE Quot((predictedValue - currentValue) * 100 * FP, currentValue)

\* a classification that calls every rise above 20 percent critical
determineTrendIgnoringConfidence(changePercent, confidence) ==
    IF Abs(changePercent) < StableBelowPercent * FP THEN "stable"
    ELSE IF changePercent > 0
         THEN (IF changePercent > CriticalAbovePercent * FP THEN "critical" ELSE "degrading")
         ELSE "improving"

determineTrend(changePercent, confidence) ==
    IF Abs(changePercent) < StableBelowPercent * FP THEN "stable"
    ELSE IF changePercent > 0
         THEN (IF changePercent > CriticalAbovePercent * FP
                  /\ confidence > CriticalAboveConfidence * FP
               THEN "critical" ELSE "degrading")
         ELSE "improving"

PointTime(d) == d.timestamp

\* .sort((a, b) => a.timestamp - b.timestamp)
SortByTimestamp(data) ==
    Unkeyed(SortKeyed([i \in 1..Len(data) |-> <<PointTime(data[i]), data[i]>>]))

\* Math.round(x) of forecastMTTR, kept in units of 1/FP
RoundToUnits(x) == RoundFP(x) * FP

\* Math.round(x * 10) / 10 of forecastIncidentVolume
RoundToTenths(x) == ((x + FP \div 20) \div (FP \div 10)) * (FP \div 10)

RoundFor(metric, x) == IF metric = "MTTR" THEN RoundToUnits(x) ELSE RoundToTenths(x)

\* What both forecasts compute from the raw series, at being Date.now() in
\* minutes.  confidence is a whole number, seasonalityStrength a whole
\* percentage, every other number is in units of 1/FP.
ForecastFrom(metric, period, rawTimeSeries, at) ==
    LET timeSeries == detectAndRemoveOutliers(rawTimeSeries).cleaned
        currentValue == calculateCurrentValue(timeSeries, CurrentValueDays, at)
        driftDetected == detectDrift(timeSeries)
        decomposition == decomposeTimeSeries(timeSeries)
        arima == forecastARIMA(engineerFeatures(timeSeries))
        prophet == forecastProphet(decomposition, timeSeries, period, at)
        exponential == forecastExponentialSmoothing(timeSeries, period)
        linear == forecastLinearRegression(timeSeries, period)
        predictedValue == Ensemble(arima, prophet, exponential, linear)
        predictionInterval ==
            calculatePredictionInterval(predictedValue, <<arima, prophet, exponential, linear>>)
        modelAccuracy == calculateMAPE(timeSeries)
        confidence == calculateConfidenceScore(Len(timeSeries), modelAccuracy,
                                               decomposition.strength, driftDetected)
        changePercent == ChangePercent(predictedValue, currentValue)
    IN [metric |-> metric,
        currentValue |-> RoundFor(metric, currentValue),
        predictedValue |-> RoundFor(metric, predictedValue),
        confidence |-> RoundFP(confidence),
        predictionInterval |-> [lower |-> RoundFor(metric, predictionInterval.lower),
                                upper |-> RoundFor(metric, predictionInterval.upper)],
        trend |-> determineTrend(changePercent, confidence),
        changePercent |-> changePercent,
        period |-> period,
        modelAccuracy |-> modelAccuracy,
        driftDetected |-> driftDetected,
        seasonalityStrength |-> decomposition.strength]

\* records.filter((r) => r.status === 'resolved' && r.mttr !== undefined)
ResolvedRecords(records) ==
    SelectSeq(records, LAMBDA r : r.status = "resolved" /\ "mttr" \in DOMAIN r)

MttrPoint(r) ==
    [timestamp |-> IF "resolvedAt" \in DOMAIN r THEN r.resolvedAt ELSE r.createdAt,
     value |-> r.mttr]

MttrSeries(records) ==
    LET resolved == ResolvedRecords(records)
    IN SortByTimestamp([k \in 1..Len(resolved) |-> MttrPoint(resolved[k])])

\* the models run unless fewer than 15 resolved records are stored
MttrRunsModels == Len(ResolvedRecords(mttrRecords)) >= MinDataPoints

forecastMTTR(period, at) ==
    IF MttrRunsModels
    THEN ForecastFrom("MTTR", period, MttrSeries(mttrRecords), at)
    ELSE createDefaultForecast("MTTR", period)

\* new Date(timestamp).toISOString().split('T')[0], as a day number
DayOf(ts) == ts \div MinutesPerDay

\* one point per calendar day that has an incident: the day's start and count
DailySeries(incidents) ==
    LET dayOfIncident == [i \in 1..Len(incidents) |-> DayOf(incidents[i].timestamp)]
        days == DistinctInOrder(dayOfIncident)
        Count(day) == Cardinality({i \in 1..Len(incidents) : dayOfIncident[i] = day})
    IN SortByTimestamp([k \in 1..Len(days) |->
                           [timestamp |-> days[k] * MinutesPerDay, value |-> Count(days[k])]])

\* the models run unless fewer than 15 incidents are stored
VolumeRunsModels == Len(incidentMetrics) >= MinDataPoints

forecastIncidentVolume(period, at) ==
    IF VolumeRunsModels
    THEN ForecastFrom("Incident Volume", period, DailySeries(incidentMetrics), at)
    ELSE createDefaultForecast("Incident Volume", period)

\* What a forecast call leaves behind: its result, whether the storage read
\* threw (the catch block then returns the default) and whether the models ran.
ForecastReturn(op, period, storageFailed, ranModels, result) ==
    [op |-> op, period |-> period, storageFailed |-> storageFailed,
     ranModels |-> ranModels, result |-> result]

ForecastMTTR(period, storageFailed) ==
    /\ ret' = IF storageFailed
              THEN ForecastReturn("forecastMTTR", period, TRUE, FALSE,
                                  createDefaultForecast("MTTR", period))
              ELSE ForecastReturn("forecastMTTR", period, FALSE, MttrRunsModels,
                                  forecastMTTR(period, now))
    /\ UNCHANGED <<incidentMetrics, patternVars, forecastInputs, rateVars, jobVars>>

ForecastIncidentVolume(period, storageFailed) ==
    /\ ret' = IF storageFailed
              THEN ForecastReturn("forecastIncidentVolume", period, TRUE, FALSE,
                                  createDefaultForecast("Incident Volume", period))
              ELSE ForecastReturn("forecastIncidentVolume", period, FALSE, VolumeRunsModels,
                                  forecastIncidentVolume(period, now))
    /\ UNCHANGED <<incidentMetrics, patternVars, forecastInputs, rateVars, jobVars>>

\* the latest time any stored record, incident or sample carries
LastStoredTime ==
    LET times == {IF "resolvedAt" \in DOMAIN mttrRecords[i]
                     THEN mttrRecords[i].resolvedAt ELSE mttrRecords[i].createdAt :
                     i \in 1..Len(mttrRecords)}
                 \cup {incidentMetrics[i].timestamp : i \in 1..Len(incidentMetrics)}
                 \cup {series[i].timestamp : i \in 1..Len(series)}
    IN IF times = {} THEN 0 ELSE CHOOSE t \in times : \A u \in times : u <= t

\* the first call is made a day after the latest stored time
CallTime == LastStoredTime + MinutesPerDay

\* the time between two calls: a week
TickMinutes == 7 * MinutesPerDay

\* the clock moves on between calls
Tick ==
    /\ now < CallTime + MaxTicks * TickMinutes
    /\ now' = now + TickMinutes
    /\ UNCHANGED <<incidentMetrics, incidentStats, detectedPatterns, usageEvents,
                   detectResult, pc, trimmedMetrics, started, forecastVars, rateVars, jobVars>>

\* the cleaner applied to the series at hand
DetectAndRemoveOutliers ==
    /\ ret' = [op |-> "detectAndRemoveOutliers", result |-> detectAndRemoveOutliers(series)]
    /\ UNCHANGED <<incidentMetrics, patternVars, forecastInputs, rateVars, jobVars>>

\* the feature engineer applied to the series at hand
EngineerFeatures ==
    /\ ret' = [op |-> "engineerFeatures", result |-> engineerFeatures(series)]
    /\ UNCHANGED <<incidentMetrics, patternVars, forecastInputs, rateVars, jobVars>>

\* the accuracy measure applied to the series at hand
CalculateMAPE ==
    /\ ret' = [op |-> "calculateMAPE", result |-> calculateMAPE(series)]
    /\ UNCHANGED <<incidentMetrics, patternVars, forecastInputs, rateVars, jobVars>>

\* the decomposition applied to the series at hand
DecomposeTimeSeries ==
    /\ ret' = [op |-> "decomposeTimeSeries", result |-> decomposeTimeSeries(series)]
    /\ UNCHANGED <<incidentMetrics, patternVars, forecastInputs, rateVars, jobVars>>

\* the drift test applied to the series at hand
DetectDrift ==
    /\ ret' = [op |-> "detectDrift", result |-> detectDrift(series)]
    /\ UNCHANGED <<incidentMetrics, patternVars, forecastInputs, rateVars, jobVars>>

\* the four models, their ensemble and its interval on the series at hand
RunModels(period) ==
    /\ LET arima == forecastARIMA(engineerFeatures(series))
           prophet == forecastProphet(decomposeTimeSeries(series), series, period, now)
           exponential == forecastExponentialSmoothing(series, period)
           linear == forecastLinearRegression(series, period)
           predictedValue == Ensemble(arima, prophet, exponential, linear)
       IN ret' = [op |-> "runModels", period |-> period,
                  arima |-> arima, prophet |-> prophet,
                  exponential |-> exponential, linear |-> linear,
                  predictedValue |-> predictedValue,
                  predictionInterval |->
                      calculatePredictionInterval(predictedValue,
                                                  <<arima, prophet, exponential, linear>>)]
    /\ UNCHANGED <<incidentMetrics, patternVars, forecastInputs, rateVars, jobVars>>

\* the change in percent and the trend label for the values at hand
DetermineTrend ==
    /\ LET changePercent == ChangePercent(trendArgs.predicted, trendArgs.current)
       IN ret' = [op |-> "determineTrend", changePercent |-> changePercent,
                  result |-> determineTrend(changePercent, trendArgs.confidence)]
    /\ UNCHANGED <<incidentMetrics, patternVars, forecastInputs, rateVars, jobVars>>

\* the scorer applied to the arguments at hand
CalculateConfidenceScore ==
    /\ ret' = [op |-> "calculateConfidenceScore",
               result |-> calculateConfidenceScore(scoreArgs.n, scoreArgs.mape,
                                                   scoreArgs.strength, scoreArgs.drift)]
    /\ UNCHANGED <<incidentMetrics, patternVars, forecastInputs, rateVars, jobVars>>

\* Inputs of the forecasting engine

\* one sample per day
SeriesOf(vals) == [i \in 1..Len(vals) |-> [timestamp |-> i * MinutesPerDay, value |-> vals[i]]]

SampleValues == {5, 40}

SeriesInputs ==
    UNION {{SeriesOf(vals) : vals \in [1..k -> SampleValues]} : k \in 0..MaxSeriesLen}

MttrShapes == {"constant", "ramp", "weekly", "step", "spike", "hundred", "quick"}

\* the MTTR, in minutes, of the i-th of n incidents
MttrValue(shape, i, n) ==
    CASE shape = "constant" -> 10
      [] shape = "ramp" -> i
      [] shape = "weekly" -> 100 + (i % 7)
      [] shape = "step" -> IF 10 * i <= 7 * n THEN 10 ELSE 20
      [] shape = "hundred" -> 100
      [] shape = "quick" -> i % 2
      [] OTHER -> IF i = 5 THEN 40 ELSE 10

\* series whose values no MTTR shape has: below zero throughout, below zero
\* at the end, level but for one late sample, and zeros with a one in every
\* fourth place and a single two
SeriesShapes == MttrShapes \cup {"negative", "dip", "late", "rare"}

SeriesValue(shape, i, n) ==
    CASE shape = "negative" -> 0 - 5
      [] shape = "dip" -> IF i = n THEN 0 - 20 ELSE 10
      [] shape = "late" -> IF i = 63 THEN 10 ELSE 1
      [] shape = "rare" -> IF i = 20 THEN 2 ELSE IF i % 4 = 0 THEN 1 ELSE 0
      [] OTHER -> MttrValue(shape, i, n)

ShapedSeries(shape, n) == SeriesOf([i \in 1..n |-> SeriesValue(shape, i, n)])

ShapedInputs == {ShapedSeries(shape, n) : shape \in SeriesShapes, n \in 0..MaxShapedLen}

\* series of some ninety samples
LongInputs ==
    {ShapedSeries(shape, n) : shape \in {"late", "quick"}, n \in {MaxLongLen - 1, MaxLongLen}}

\* predicted and current values and confidences around the thresholds, in
\* units of 1/FP
TrendInputs ==
    [predicted : {0, 2, 5, 50, 52, 53, 60, 61, 100, 104, 105, 120, 121,
                  9500, 9501, 10000, 10499, 10500, 12000, 12001},
     current : {0, 50, 100, 10000},
     confidence : {0, 7000, 7001, 10000}]

\* the record trackIncidentCreated and trackIncidentResolved leave for an
\* incident resolved at noon of day i
ResolvedRecord(shape, i, n) ==
    [issueKey |-> i,
     createdAt |-> i * MinutesPerDay + 720 - MttrValue(shape, i, n),
     resolvedAt |-> i * MinutesPerDay + 720,
     mttr |-> MttrValue(shape, i, n),
     status |-> "resolved"]

\* the record trackIncidentCreated leaves for an incident still open
OpenRecord(i) == [issueKey |-> i, createdAt |-> i * MinutesPerDay, status |-> "open"]

MttrRecords(shape, n, withOpen) ==
    [i \in 1..n |-> ResolvedRecord(shape, i, n)]
    \o (IF withOpen THEN <<OpenRecord(n + 1)>> ELSE <<>>)

MttrInputs ==
    {MttrRecords(shape, n, withOpen) :
        shape \in MttrShapes, n \in 0..MaxMttr, withOpen \in BOOLEAN}

VolumeShapes == {"one", "two", "alternating", "burst", "weekly", "crowded"}

\* the number of incidents on day d
DayCount(shape, d) ==
    CASE shape = "one" -> 1
      [] shape = "two" -> 2
      [] shape = "alternating" -> 1 + (d % 2)
      [] shape = "burst" -> IF d = 3 THEN 8 ELSE 1
      [] shape = "crowded" -> 5
      [] OTHER -> IF d % 7 = 0 THEN 3 ELSE 1

\* the incidents of the days 1..days, stored in the order they happened
VolumeIncidents(shape, days) ==
    LET perDay == [d \in 1..days |->
                      [j \in 1..DayCount(shape, d) |->
                          <<d * MinutesPerDay + 60 * j, "Low", "", 0>>]]
        profiles == Concat(perDay)
    IN [i \in 1..Len(profiles) |-> Stored(profiles[i], i)]

VolumeInputs == {VolumeIncidents(shape, days) : shape \in VolumeShapes, days \in 0..MaxDays}

ScoreInputs ==
    [n : {0, 15, 29, 30, 60},
     mape : {-50 * FP, 0, 20 * FP, 100 * FP, 250 * FP},
     strength : {0, FP \div 2, FP},
     drift : BOOLEAN]

\* The handlers on stored records and incidents of every shape, called at the
\* first call time and later.
InitForecast ==
    /\ InitDetectorVars
    /\ InitRateVars
    /\ InitJobVars
    /\ ret = NoReturn
    /\ series = <<>>
    /\ trendArgs = NoTrendArgs
    /\ \/ /\ mttrRecords \in MttrInputs
          /\ incidentMetrics = <<>>
          /\ scoreArgs = NoScoreArgs
       \/ /\ incidentMetrics \in VolumeInputs
          /\ mttrRecords = <<>>
          /\ scoreArgs = NoScoreArgs
       \/ /\ scoreArgs \in ScoreInputs
          /\ mttrRecords = <<>>
          /\ incidentMetrics = <<>>
    /\ now = CallTime

NextForecast ==
    \/ \E period \in Periods, storageFailed \in BOOLEAN : ForecastMTTR(period, storageFailed)
    \/ \E period \in Periods, storageFailed \in BOOLEAN :
          ForecastIncidentVolume(period, storageFailed)
    \/ CalculateConfidenceScore
    \/ Tick

SpecForecast == InitForecast /\ [][NextForecast]_vars

\* The private steps of the engine on series and on values of every shape.
InitSeries ==
    /\ InitDetectorVars
    /\ InitRateVars
    /\ InitJobVars
    /\ ret = NoReturn
    /\ mttrRecords = <<>>
    /\ incidentMetrics = <<>>
    /\ scoreArgs = NoScoreArgs
    /\ \/ /\ series \in SeriesInputs \cup ShapedInputs
          /\ trendArgs = NoTrendArgs
       \/ /\ trendArgs \in TrendInputs
          /\ series = <<>>
    /\ now = CallTime

\* one step is applied to each input
NextSeries ==
    /\ ret = NoReturn
    /\ \/ DetectAndRemoveOutliers
       \/ EngineerFeatures
       \/ CalculateMAPE
       \/ DecomposeTimeSeries
       \/ DetectDrift
       \/ \E period \in Periods : RunModels(period)
       \/ DetermineTrend

SpecSeries == InitSeries /\ [][NextSeries]_vars

\* The drift test on series short and long.
InitDrift ==
    /\ InitDetectorVars
    /\ InitRateVars
    /\ InitJobVars
    /\ ret = NoReturn
    /\ mttrRecords = <<>>
    /\ incidentMetrics = <<>>
    /\ scoreArgs = NoScoreArgs
    /\ trendArgs = NoTrendArgs
    /\ series \in ShapedInputs \cup LongInputs
    /\ now = CallTime

NextDrift == DetectDrift

SpecDrift == InitDrift /\ [][NextDrift]_vars

----------------------------------------------------------------------------
\* The rate limiter (utils/rateLimiter.ts)

\* records.filter(r => r.resetAt > now)
ActiveRecords(records, at) == SelectSeq(records, LAMBDA r : r.resetAt > at)

\* active.find(r => r.key === key): the index of the first record of the key, 0 if none
FindRecord(active, key) ==
    IF \E i \in 1..Len(active) : active[i].key = key
    THEN CHOOSE i \in 1..Len(active) :
             /\ active[i].key = key
             /\ \A j \in 1..(i - 1) : active[j].key # key
    ELSE 0

\* the calls of the key answered allowed = true after the instant `since`
StillRecent(allowed, since) == SelectSeq(allowed, LAMBDA c : c.at > since)

\* one more allowed call of the key at the instant `at`
NoteAllowed(allowed, at) ==
    IF allowed # <<>> /\ allowed[Len(allowed)].at = at
    THEN [allowed EXCEPT ![Len(allowed)].count = @ + 1]
    ELSE Append(allowed, [at |-> at, count |-> 1])

LimitReturn(key, allowed, remaining) ==
    [called |-> TRUE, key |-> key, at |-> now, allowed |-> allowed, remaining |-> remaining]

\* calls made with the second key so far in its window
OtherCalls == Sum([i \in 1..Len(recentAllowed["other-key"]) |-> recentAllowed["other-key"][i].count])

\* RateLimiter.checkLimit(key)
CheckLimit(key) ==
    /\ key = "other-key" => OtherCalls < MaxOtherCalls
    /\ LET active == ActiveRecords(rateLimits, now)
           i == FindRecord(active, key)
       IN IF i = 0
          THEN /\ rateLimits' = Append(active, [key |-> key, count |-> 1,
                                                 resetAt |-> now + WindowMinutes])
               /\ limitRet' = LimitReturn(key, TRUE, Limit - 1)
               /\ recentAllowed' = [recentAllowed EXCEPT ![key] = NoteAllowed(@, now)]
          ELSE IF active[i].count >= Limit
          THEN /\ limitRet' = LimitReturn(key, FALSE, 0)
               /\ UNCHANGED <<rateLimits, recentAllowed>>
          ELSE /\ rateLimits' = [active EXCEPT ![i].count = @ + 1]
               /\ limitRet' = LimitReturn(key, TRUE, Limit - (active[i].count + 1))
               /\ recentAllowed' = [recentAllowed EXCEPT ![key] = NoteAllowed(@, now)]
    /\ UNCHANGED <<incidentMetrics, patternVars, forecastVars, jobVars>>

\* Date.now() moves on between two checkLimit calls
RateTick ==
    /\ now + RateTickMinutes <= MaxRateMinutes
    /\ now' = now + RateTickMinutes
    /\ recentAllowed' = [key \in RateKeys |->
                             StillRecent(recentAllowed[key], now' - WindowMinutes)]
    /\ UNCHANGED <<incidentMetrics, incidentStats, detectedPatterns, usageEvents,
                   detectResult, pc, trimmedMetrics, started, forecastVars,
                   rateLimits, limitRet, jobVars>>

InitRateLimit ==
    /\ incidentMetrics = <<>>
    /\ InitPatternVars
    /\ InitForecastVars
    /\ InitRateVars
    /\ InitJobVars

NextRateLimit ==
    \/ \E key \in RateKeys : CheckLimit(key)
    \/ RateTick

SpecRateLimit == InitRateLimit /\ [][NextRateLimit]_vars

----------------------------------------------------------------------------
\* The background job queue (jobs/jobQueue.ts).  A job is [id, type, priority,
\* status, attempts, maxAttempts, completedAt]; ids number the jobs in the
\* order they were enqueued (the code draws a fresh id per job), completedAt
\* is a value of the queue's clock, 0 while unset.  The clock moves on
\* whenever a completedAt is taken from it.  The payload, createdAt,
\* startedAt and the stored result and error text are left out: no decision
\* of the queue reads them.

JobPriorities == {"low", "normal", "high", "critical"}

priorityOrder == [critical |-> 4, high |-> 3, normal |-> 2, low |-> 1]

\* the maxAttempts argument of enqueue: 0 when it is left out
AttemptsAsked == 0..MaxAttemptsAsked

\* the calls of enqueue: jobs of a type executeJob has a handler for, in every
\* priority, and jobs of a type it has none for
JobRequests ==
    {[type |-> "send_notification", priority |-> priority, asked |-> 0] :
        priority \in JobPriorities}
    \cup {[type |-> "unknown_type", priority |-> priority, asked |-> asked] :
            priority \in {"low", "high"}, asked \in AttemptsAsked}

\* the comparator of sortByPriority: pending first, then the higher priority
compare(a, b) ==
    IF a.status = "pending" /\ b.status # "pending" THEN 0 - 1
    ELSE IF a.status # "pending" /\ b.status = "pending" THEN 1
    ELSE priorityOrder[b.priority] - priorityOrder[a.priority]

\* the sort with the priorities the other way round
sortByPriorityAscending(jobs) == SortSeq(jobs, LAMBDA a, b : compare(b, a) < 0)

\* jobs.sort(compare): Array.prototype.sort is stable
sortByPriority(jobs) == SortSeq(jobs, LAMBDA a, b : compare(a, b) < 0)

\* the job enqueue builds
NewJob(id, request) ==
    [id |-> id, type |-> request.type, priority |-> request.priority,
     status |-> "pending", attempts |-> 0,
     maxAttempts |-> IF request.asked = 0 THEN defaultMaxAttempts ELSE request.asked,
     completedAt |-> 0]

\* the record of a call: the job it started and what it returned
JobReturn(op, startedId, returned) ==
    [op |-> op, started |-> startedId, returned |-> returned]

\* queue.filter(j => j.status === 'running').length
RunningJobs(queue) == Cardinality({i \in 1..Len(queue) : queue[i].status = "running"})

\* queue.find(j => j.status === 'pending'): its index, 0 if there is none
FindPending(queue) ==
    IF \E i \in 1..Len(queue) : queue[i].status = "pending"
    THEN CHOOSE i \in 1..Len(queue) :
             /\ queue[i].status = "pending"
             /\ \A j \in 1..(i - 1) : queue[j].status # "pending"
    ELSE 0

\* queue.find(j => j.id === jobId): its index, 0 if there is none
FindJob(queue, jobId) ==
    IF \E i \in 1..Len(queue) : queue[i].id = jobId
    THEN CHOOSE i \in 1..Len(queue) :
             /\ queue[i].id = jobId
             /\ \A j \in 1..(i - 1) : queue[j].id # jobId
    ELSE 0

\* nextJob is marked running in the array processNext holds
MarkRunning(queue, i) ==
    [queue EXCEPT ![i].status = "running", ![i].attempts = @ + 1]

\* executeJob returns for a type it has a handler for and throws for any other
Executes(job) == job.type = "send_notification"

\* the retry test letting one more attempt through
AttemptsExhaustedWhenAbove(job) == job.attempts > job.maxAttempts

\* nextJob.attempts >= nextJob.maxAttempts
AttemptsExhausted(job) == job.attempts >= job.maxAttempts

\* the array after the execution: completed, or failed for good, or pending again
Settle(queue, i, at) ==
    IF Executes(queue[i])
    THEN [queue EXCEPT ![i].status = "completed", ![i].completedAt = at]
    ELSE [queue EXCEPT ![i].status = IF AttemptsExhausted(queue[i]) THEN "failed"
                                     ELSE "pending"]

\* what processNext returns once the execution is over
Outcome(job) == IF Executes(job) THEN "job" ELSE "null"

\* the clock after an execution: it was read if the job completed
ClockAfter(job) == IF Executes(job) THEN jobClock + 1 ELSE jobClock

\* JobQueue.enqueue, from its storage.get to its storage.set
Enqueue(request) ==
    /\ Len(jobQueue) < MaxJobs
    /\ LET id == Len(jobQueue) + 1
       IN /\ jobQueue' = sortByPriority(Append(jobQueue, NewJob(id, request)))
          /\ jobRet' = JobReturn("enqueue", id, "id")
    /\ UNCHANGED <<incidentMetrics, patternVars, forecastVars, rateVars,
                   jobClock, workerPc, workerQueue, workerJob>>

\* JobQueue.cancelJob, from its storage.get to its storage.set
CancelJob(jobId) ==
    /\ jobClock < MaxJobClock
    /\ LET i == FindJob(jobQueue, jobId)
       IN IF i = 0 \/ jobQueue[i].status = "running"
          THEN /\ jobRet' = JobReturn("cancelJob", 0, "false")
               /\ UNCHANGED <<jobQueue, jobClock>>
          ELSE /\ jobQueue' = [jobQueue EXCEPT ![i].status = "cancelled",
                                               ![i].completedAt = jobClock + 1]
               /\ jobClock' = jobClock + 1
               /\ jobRet' = JobReturn("cancelJob", 0, "true")
    /\ UNCHANGED <<incidentMetrics, patternVars, forecastVars, rateVars,
                   workerPc, workerQueue, workerJob>>

\* JobQueue.processNext, run from its storage.get to its last storage.set
\* with no other call in between
ProcessNext ==
    /\ jobClock < MaxJobClock
    /\ LET queue == jobQueue
           i == FindPending(queue)
       IN IF RunningJobs(queue) >= maxConcurrentJobs \/ i = 0
          THEN /\ jobRet' = JobReturn("processNext", 0, "null")
               /\ UNCHANGED <<jobQueue, jobClock>>
          ELSE /\ jobQueue' = Settle(MarkRunning(queue, i), i, jobClock + 1)
               /\ jobClock' = ClockAfter(queue[i])
               /\ jobRet' = JobReturn("processNext", queue[i].id, Outcome(queue[i]))
    /\ UNCHANGED <<incidentMetrics, patternVars, forecastVars, rateVars,
                   workerPc, workerQueue, workerJob>>

\* processNext of worker w up to its first storage.set: the queue is read,
\* the limit is tested and the first pending job is marked in the array.
\* A worker is one invocation: it makes one call and is done when the call
\* has returned.  The workers are interchangeable: a call is made by the idle
\* worker of the lowest number.
ReadQueue(w) ==
    /\ workerPc[w] = "idle"
    /\ \A v \in 1..(w - 1) : workerPc[v] # "idle"
    /\ LET queue == jobQueue
           i == FindPending(queue)
       IN IF RunningJobs(queue) >= maxConcurrentJobs \/ i = 0
          THEN /\ jobRet' = JobReturn("processNext", 0, "null")
               /\ workerPc' = [workerPc EXCEPT ![w] = "returned"]
               /\ UNCHANGED <<workerQueue, workerJob>>
          ELSE /\ workerQueue' = [workerQueue EXCEPT ![w] = MarkRunning(queue, i)]
               /\ workerJob' = [workerJob EXCEPT ![w] = i]
               /\ workerPc' = [workerPc EXCEPT ![w] = "marked"]
               /\ jobRet' = JobReturn("processNext", queue[i].id, "none")
    /\ UNCHANGED <<incidentMetrics, patternVars, forecastVars, rateVars,
                   jobQueue, jobClock>>

\* storage.set of the array with the job marked running; executeJob begins
WriteRunning(w) ==
    /\ workerPc[w] = "marked"
    /\ jobQueue' = workerQueue[w]
    /\ workerPc' = [workerPc EXCEPT ![w] = "executing"]
    /\ UNCHANGED <<incidentMetrics, patternVars, forecastVars, rateVars,
                   jobClock, jobRet, workerQueue, workerJob>>

\* executeJob is over: the outcome is noted in the array, the array is stored
WriteOutcome(w) ==
    /\ workerPc[w] = "executing"
    /\ jobClock < MaxJobClock
    /\ jobQueue' = Settle(workerQueue[w], workerJob[w], jobClock + 1)
    /\ jobClock' = ClockAfter(workerQueue[w][workerJob[w]])
    /\ jobRet' = JobReturn("processNext", workerQueue[w][workerJob[w]].id,
                           Outcome(workerQueue[w][workerJob[w]]))
    /\ workerPc' = [workerPc EXCEPT ![w] = "returned"]
    /\ workerQueue' = [workerQueue EXCEPT ![w] = <<>>]
    /\ workerJob' = [workerJob EXCEPT ![w] = 0]
    /\ UNCHANGED <<incidentMetrics, patternVars, forecastVars, rateVars>>

\* the ids a caller may hand to cancelJob: those of the jobs, and one of no job
JobIds == 1..(MaxJobs + 1)

InitJobs ==
    /\ incidentMetrics = <<>>
    /\ InitPatternVars
    /\ InitForecastVars
    /\ InitRateVars
    /\ InitJobVars

\* calls that do not overlap
NextJobs ==
    \/ \E request \in JobRequests : Enqueue(request)
    \/ ProcessNext
    \/ \E jobId \in JobIds : CancelJob(jobId)

SpecJobs == InitJobs /\ [][NextJobs]_vars

\* the jobs enqueued while workers are at work
WorkerRequests == {request \in JobRequests : request.priority = "high" /\ request.asked = 0}

\* processNext calls of several workers that overlap, with enqueue and
\* cancelJob calls between their steps
NextWorkers ==
    \/ \E request \in WorkerRequests : Enqueue(request)
    \/ \E jobId \in JobIds : CancelJob(jobId)
    \/ \E w \in Workers : ReadQueue(w)
    \/ \E w \in Workers : WriteRunning(w)
    \/ \E w \in Workers : WriteOutcome(w)

SpecWorkers == InitJobs /\ [][NextWorkers]_vars

----------------------------------------------------------------------------
\* Claims about the pattern detector

Total == Len(incidentMetrics)

Indices == 1..Len(incidentMetrics)

KeysAt(S) == {incidentMetrics[i].issueKey : i \in S}

\* the patterns of one type in the latest result
Returned(type) == SelectSeq(detectResult.patterns, LAMBDA p : p.patternType = type)

\* a full detection run has returned
FullRun == detectResult.called /\ Total >= 3

\* C1: after every call to detectPatterns, whatever the number of stored
\* incidents, what getPatterns returns is exactly the set of patterns that call
\* computed (the patterns it returned).
C1_PersistedIsLatestRun ==
    detectResult.called => Range(getPatterns) = Range(detectResult.patterns)

HourGroup(h) == {i \in Indices : getHours(incidentMetrics[i].timestamp) = h}

TimeBasedFor(h) == SelectSeq(Returned("time_based"), LAMBDA p : p.patternId[2] = h)

TimeBasedShape(h) ==
    LET count == Cardinality(HourGroup(h))
    IN /\ Len(TimeBasedFor(h)) = 1
       /\ TimeBasedFor(h)[1].occurrences = count
       /\ TimeBasedFor(h)[1].riskScore = (IF 30 + 5 * count <= 80 THEN 30 + 5 * count ELSE 80)

\* C2 as stated: an hour group is flagged if and only if its count is strictly
\* greater than 2 x (total / 24) and at least 3; occurrences is the count and
\* riskScore is min(30 + 5*count, 80).
C2_TimeBasedStrictlyAbove ==
    FullRun =>
        \A h \in 0..23 :
            LET count == Cardinality(HourGroup(h))
            IN IF 24 * count > 2 * Total /\ count >= 3
               THEN TimeBasedShape(h)
               ELSE TimeBasedFor(h) = <<>>

\* C2 amended: an hour group is flagged if and only if its count is at least
\* 2 x (total / 24) and at least 3; occurrences is the count and riskScore is
\* min(30 + 5*count, 80).
C2_TimeBasedAtLeast ==
    FullRun =>
        /\ \A h \in 0..23 :
              LET count == Cardinality(HourGroup(h))
              IN IF 24 * count >= 2 * Total /\ count >= 3
                 THEN TimeBasedShape(h)
                 ELSE TimeBasedFor(h) = <<>>
        /\ \A p \in Range(Returned("time_based")) : p.patternId[2] \in 0..23

\* an hour whose count is exactly 2 x (total / 24) has been flagged
C2_Witness ==
    /\ FullRun
    /\ \E p \in Range(Returned("time_based")) :
          /\ 24 * p.occurrences = 2 * Total
          /\ p.occurrences = Cardinality(HourGroup(p.patternId[2]))

ClaimedAction(i) ==
    IF incidentMetrics[i].recommendedAction = "" THEN "Unknown"
    ELSE incidentMetrics[i].recommendedAction

ActionGroup(a) == {i \in Indices : ClaimedAction(i) = a}

ActionGroups == {ActionGroup(ClaimedAction(i)) : i \in Indices}

RecurringFor(G) ==
    SelectSeq(Returned("recurring_error"), LAMBDA p : p.affectedComponents = KeysAt(G))

\* C3: every recommendedAction group (a missing action counts as 'Unknown') of
\* at least 3 incidents yields exactly one recurring_error pattern, a group of
\* 1 or 2 yields none, and nothing else is emitted; occurrences is the group
\* size and riskScore is min(40 + 10*count, 95).
C3_RecurringPerGroup ==
    FullRun =>
        /\ \A G \in ActionGroups :
              LET count == Cardinality(G)
              IN IF count >= 3
                 THEN /\ Len(RecurringFor(G)) = 1
                      /\ RecurringFor(G)[1].occurrences = count
                      /\ RecurringFor(G)[1].riskScore =
                            (IF 40 + 10 * count <= 95 THEN 40 + 10 * count ELSE 95)
                 ELSE RecurringFor(G) = <<>>
        /\ Len(Returned("recurring_error"))
             = Cardinality({G \in ActionGroups : Cardinality(G) >= 3})

\* a group of exactly 3 that joins a missing action with 'Unknown' is flagged
\* beside a group of exactly 2 that is not
C3_Witness ==
    /\ FullRun
    /\ \E G \in ActionGroups :
          /\ Cardinality(G) = 3
          /\ \E i, j \in G : /\ incidentMetrics[i].recommendedAction = ""
                              /\ incidentMetrics[j].recommendedAction = "Unknown"
          /\ Len(RecurringFor(G)) = 1
    /\ \E G \in ActionGroups : Cardinality(G) = 2 /\ RecurringFor(G) = <<>>

GapOk(byTime, m) == byTime[m + 1].timestamp - byTime[m].timestamp <= 15

\* the maximal runs of a time-ordered list whose successive gaps are all <= 15 minutes
MaximalRuns(byTime) ==
    {r \in Indices \X Indices :
        /\ r[1] <= r[2]
        /\ r[1] = 1 \/ ~GapOk(byTime, r[1] - 1)
        /\ r[2] = Total \/ ~GapOk(byTime, r[2])
        /\ \A m \in r[1]..(r[2] - 1) : GapOk(byTime, m)}

RunKeys(byTime, r) == [k \in 1..(r[2] - r[1] + 1) |-> byTime[r[1] + k - 1].issueKey]

CascadeFor(byTime, r) ==
    SelectSeq(Returned("cascading_failure"),
              LAMBDA p : p.relatedIncidents = RunKeys(byTime, r))

TimeSpan ==
    LET ts == {incidentMetrics[i].timestamp : i \in Indices}
    IN (CHOOSE x \in ts : \A y \in ts : y <= x) - (CHOOSE x \in ts : \A y \in ts : x <= y)

\* C4: over the incidents in time order (equal timestamps in stored order)
\* there is one cascading_failure pattern for every maximal run with gaps
\* <= 15 minutes and at least 3 members, and no other; occurrences is the run
\* length and riskScore is min(60 + 10*count, 100).  A list of 4 incidents
\* within a 10-minute span gives one pattern of 4.
C4_CascadePerMaximalRun ==
    FullRun =>
        LET byTime == SortByTime(incidentMetrics)
            longRuns == {r \in MaximalRuns(byTime) : r[2] - r[1] + 1 >= 3}
        IN /\ \A r \in longRuns :
                 LET count == r[2] - r[1] + 1
                     got == CascadeFor(byTime, r)
                 IN /\ Len(got) = 1
                    /\ got[1].occurrences = count
                    /\ got[1].riskScore =
                          (IF 60 + 10 * count <= 100 THEN 60 + 10 * count ELSE 100)
           /\ Len(Returned("cascading_failure")) = Cardinality(longRuns)
           /\ (Total = 4 /\ TimeSpan <= 10) =>
                 /\ Len(Returned("cascading_failure")) = 1
                 /\ Returned("cascading_failure")[1].occurrences = 4

\* 4 incidents, stored out of time order, within a 10-minute span: one pattern
C4_Witness ==
    /\ FullRun
    /\ Total = 4
    /\ TimeSpan <= 10
    /\ TimeSpan > 0
    /\ incidentMetrics[1].timestamp > incidentMetrics[4].timestamp
    /\ Len(Returned("cascading_failure")) = 1
    /\ Returned("cascading_failure")[1].occurrences = 4

DetectorRank(type) ==
    CASE type = "recurring_error" -> 1
      [] type = "time_based" -> 2
      [] type = "component_hotspot" -> 3
      [] type = "cascading_failure" -> 4
      [] type = "deployment_correlation" -> 5

Position(list, x) == CHOOSE k \in 1..Len(list) : list[k] = x

\* C5: detectPatterns returns the concatenated output of the five detectors
\* ordered by riskScore descending; patterns of equal riskScore keep the order
\* of the detectors and, within a detector, the order of insertion.
C5_SortedByRiskStable ==
    FullRun =>
        LET out == detectResult.patterns
            all == ComputePatterns(incidentMetrics)
        IN /\ Len(out) = Len(all)
           /\ Range(out) = Range(all)
           /\ \A i, j \in 1..Len(out) :
                 i < j =>
                   /\ out[i].riskScore >= out[j].riskScore
                   /\ out[i].riskScore = out[j].riskScore =>
                         /\ DetectorRank(out[i].patternType)
                               <= DetectorRank(out[j].patternType)
                         /\ Position(all, out[i]) < Position(all, out[j])

\* a result with a tie between two detectors, one within a detector, and a
\* strict descent
C5_Witness ==
    /\ FullRun
    /\ \E i, j \in 1..Len(detectResult.patterns) :
          /\ i < j
          /\ detectResult.patterns[i].riskScore = detectResult.patterns[j].riskScore
          /\ detectResult.patterns[i].patternType # detectResult.patterns[j].patternType
    /\ \E i, j \in 1..Len(detectResult.patterns) :
          /\ i < j
          /\ detectResult.patterns[i].riskScore = detectResult.patterns[j].riskScore
          /\ detectResult.patterns[i].patternType = detectResult.patterns[j].patternType
    /\ \E i, j \in 1..Len(detectResult.patterns) :
          detectResult.patterns[i].riskScore > detectResult.patterns[j].riskScore

\* C6: with fewer than 3 stored incidents detectPatterns returns the empty
\* pattern list and totalIncidents equal to the list length.
C6_FewIncidentsEmpty ==
    (detectResult.called /\ Total < 3) =>
        /\ detectResult.patterns = <<>>
        /\ detectResult.totalIncidents = Total

\* a list of length 2 gave patterns = [] and totalIncidents = 2
C6_Witness ==
    /\ detectResult.called
    /\ Total = 2
    /\ detectResult.patterns = <<>>
    /\ detectResult.totalIncidents = 2

WithCommits == {i \in Indices : incidentMetrics[i].suspectCommits >= 2}

\* C7: there is exactly one deployment_correlation pattern, over all incidents
\* with a suspect-commit count >= 2, if and only if there are at least 3 of
\* them; occurrences is their number and riskScore is min(45 + 7*count, 90).
C7_DeploymentCorrelation ==
    FullRun =>
        LET count == Cardinality(WithCommits)
            got == Returned("deployment_correlation")
        IN IF count >= 3
           THEN /\ Len(got) = 1
                /\ got[1].occurrences = count
                /\ got[1].affectedComponents = KeysAt(WithCommits)
                /\ got[1].riskScore = (IF 45 + 7 * count <= 90 THEN 45 + 7 * count ELSE 90)
           ELSE got = <<>>

\* exactly 3 incidents with 2 or more suspect commits are flagged beside
\* incidents with a single suspect commit
C7_Witness ==
    /\ FullRun
    /\ Cardinality(WithCommits) = 3
    /\ \E i \in Indices : incidentMetrics[i].suspectCommits = 1
    /\ Len(Returned("deployment_correlation")) = 1
    /\ Returned("deployment_correlation")[1].occurrences = 3

ClaimedPriority(i) ==
    IF incidentMetrics[i].priority = "" THEN "Unknown" ELSE incidentMetrics[i].priority

PriorityGroup(l) == {i \in Indices : ClaimedPriority(i) = l}

PriorityLabels == {ClaimedPriority(i) : i \in Indices}

HotspotFor(l) ==
    SelectSeq(Returned("component_hotspot"),
              LAMBDA p : p.affectedComponents = KeysAt(PriorityGroup(l)))

\* C8: a priority group yields a component_hotspot pattern if and only if its
\* label is 'Highest' or 'High' and it has at least 5 incidents; occurrences is
\* the group size and riskScore is min(50 + 8*count, 100).
C8_HotspotPerPriority ==
    FullRun =>
        /\ \A l \in PriorityLabels :
              LET count == Cardinality(PriorityGroup(l))
              IN IF l \in {"Highest", "High"} /\ count >= 5
                 THEN /\ Len(HotspotFor(l)) = 1
                      /\ HotspotFor(l)[1].occurrences = count
                      /\ HotspotFor(l)[1].riskScore =
                            (IF 50 + 8 * count <= 100 THEN 50 + 8 * count ELSE 100)
                 ELSE HotspotFor(l) = <<>>
        /\ Len(Returned("component_hotspot"))
             = Cardinality({l \in PriorityLabels :
                              l \in {"Highest", "High"}
                              /\ Cardinality(PriorityGroup(l)) >= 5})

\* a 'High' group of exactly 5 is flagged while a 'Highest' group of 2 is not
C8_Witness ==
    /\ FullRun
    /\ Cardinality(PriorityGroup("High")) = 5
    /\ Cardinality(PriorityGroup("Highest")) = 2
    /\ Len(HotspotFor("High")) = 1
    /\ HotspotFor("Highest") = <<>>

----------------------------------------------------------------------------
\* Claims about the forecasting engine

Cleaned == ret.op = "detectAndRemoveOutliers"

RECURSIVE IsInterleaving(_, _, _)
\* input is left and right merged with the order of each kept: every position
\* of input goes to exactly one of the two
IsInterleaving(input, left, right) ==
    IF input = <<>> THEN left = <<>> /\ right = <<>>
    ELSE \/ /\ left # <<>>
            /\ Head(left) = Head(input)
            /\ IsInterleaving(Tail(input), Tail(left), right)
         \/ /\ right # <<>>
            /\ Head(right) = Head(input)
            /\ IsInterleaving(Tail(input), left, Tail(right))

\* C9: the cleaner's cleaned and outliers lists partition the input series by
\* position: every sample is in exactly one of the two lists, none is lost or
\* duplicated, both lists keep the input's order; with fewer than 10 samples
\* cleaned is the whole input and outliers is empty.
C9_CleanerPartitionsInput ==
    Cleaned =>
        /\ IsInterleaving(series, ret.result.cleaned, ret.result.outliers)
        /\ Len(ret.result.cleaned) + Len(ret.result.outliers) = Len(series)
        /\ Range(ret.result.cleaned) \cap Range(ret.result.outliers) = {}
        /\ ret.result.outliersRemoved = Len(ret.result.outliers)
        /\ Len(series) < 10 => ret.result.cleaned = series /\ ret.result.outliers = <<>>

\* ten or more samples were cleaned and both lists are non-empty, the
\* outliers neither leading nor trailing the series
C9_Witness ==
    /\ Cleaned
    /\ Len(series) >= 10
    /\ Len(ret.result.outliers) >= 2
    /\ ret.result.cleaned # <<>>
    /\ series[1] \in Range(ret.result.cleaned)
    /\ series[Len(series)] \in Range(ret.result.cleaned)

Forecasted == ret.op \in {"forecastMTTR", "forecastIncidentVolume"}

Scored == ret.op = "calculateConfidenceScore"

\* C10: every result of forecastMTTR and forecastIncidentVolume, the default
\* result included, has a confidence between 0 and 100, and so has every
\* score the confidence scorer returns.
C10_ConfidenceWithinBounds ==
    /\ Forecasted => ret.result.confidence \in 0..100
    /\ Scored => ret.result >= 0 /\ ret.result <= 100 * FP

\* the score accumulated for the stored MTTR records, before clamping
MttrRawScore ==
    LET timeSeries == detectAndRemoveOutliers(MttrSeries(mttrRecords)).cleaned
    IN ConfidenceRaw(Len(timeSeries), calculateMAPE(timeSeries),
                     decomposeTimeSeries(timeSeries).strength, detectDrift(timeSeries))

\* a forecast computed from 15 or more resolved records whose accumulated
\* score exceeded 100
C10_Witness ==
    /\ ret.op = "forecastMTTR"
    /\ Len(ResolvedRecords(mttrRecords)) >= MinDataPoints
    /\ MttrRawScore > 100 * FP
    /\ ret.result.confidence = 100

ModelsRun == ret.op = "runModels"

\* C11: for a series of any length and any values, each of the four
\* sub-forecasts is non-negative, and so are the ensemble's predicted value
\* and both bounds of the prediction interval.
C11_ForecastsNonNegative ==
    ModelsRun =>
        /\ ret.arima >= 0
        /\ ret.prophet >= 0
        /\ ret.exponential >= 0
        /\ ret.linear >= 0
        /\ ret.predictedValue >= 0
        /\ ret.predictionInterval.lower >= 0
        /\ ret.predictionInterval.upper >= 0

TrendDetermined == ret.op = "determineTrend"

\* the label the rule gives a change in percent and a confidence, both in
\* units of 1/FP
ClaimedTrend(changePercent, confidence) ==
    CASE Abs(changePercent) < 5 * FP -> "stable"
      [] Abs(changePercent) >= 5 * FP /\ changePercent > 0 ->
            IF changePercent > 20 * FP /\ confidence > 70 * FP
            THEN "critical" ELSE "degrading"
      [] OTHER -> "improving"

\* (predicted - current) / divisor * 100, in units of 1/FP
ClaimedChange(divisor) ==
    Quot((trendArgs.predicted - trendArgs.current) * 100 * FP, divisor)

\* C12 as stated: the change in percent is (predicted - current) /
\* max(current, 1) * 100, and the trend is stable below 5 percent either way,
\* critical for a rise above 20 percent with confidence above 70, degrading for
\* any other rise and improving for a fall.
C12_TrendFromChangeOverMax ==
    TrendDetermined =>
        /\ ret.changePercent = ClaimedChange(Max(trendArgs.current, FP))
        /\ ret.result = ClaimedTrend(ret.changePercent, trendArgs.confidence)

\* C12: the change in percent is (predicted - current) / current * 100, with
\* the divisor 1 only when current is 0, and the trend is stable below 5
\* percent either way, critical for a rise above 20 percent with confidence
\* above 70, degrading for any other rise and improving for a fall.
C12_TrendFromChangeOverCurrent ==
    TrendDetermined =>
        /\ ret.changePercent =
              ClaimedChange(IF trendArgs.current = 0 THEN FP ELSE trendArgs.current)
        /\ ret.result = ClaimedTrend(ret.changePercent, trendArgs.confidence)

\* a current value of one half and a rise of six percent of it, which is three
\* percent of 1: the trend is degrading
C12_Witness ==
    /\ TrendDetermined
    /\ trendArgs.current = FP \div 2
    /\ ret.changePercent = 6 * FP
    /\ ret.result = "degrading"

\* the fields of a result that are forecast, not copied from the call
CoreFields(result) ==
    [predictedValue |-> result.predictedValue,
     currentValue |-> result.currentValue,
     confidence |-> result.confidence,
     trend |-> result.trend,
     changePercent |-> result.changePercent,
     predictionInterval |-> result.predictionInterval,
     modelAccuracy |-> result.modelAccuracy,
     driftDetected |-> result.driftDetected,
     seasonalityStrength |-> result.seasonalityStrength]

\* a forecast call that follows the same call, for the same period and on the
\* same stored data, both with healthy storage
SameCallAgain ==
    /\ Forecasted
    /\ ret'.op = ret.op
    /\ ret'.period = ret.period
    /\ ~ret.storageFailed /\ ~ret'.storageFailed
    /\ mttrRecords' = mttrRecords
    /\ incidentMetrics' = incidentMetrics

\* C13: with the same stored series and the same period, two forecast calls
\* made at any two times return the same predictedValue, currentValue,
\* confidence, trend, changePercent, predictionInterval, modelAccuracy,
\* driftDetected and seasonalityStrength.
C13_SameInputSameResult ==
    [][SameCallAgain => CoreFields(ret'.result) = CoreFields(ret.result)]_vars

\* the stored history is 20 resolved incidents, one a day, each with an MTTR
\* of 100 minutes
ConstantHistory ==
    /\ Len(mttrRecords) = 20
    /\ \A i \in 1..20 : /\ mttrRecords[i].status = "resolved"
                        /\ mttrRecords[i].mttr = 100
                        /\ mttrRecords[i].resolvedAt = i * MinutesPerDay + 720

\* C14: on a history of 20 daily samples all equal to 100, a forecast for
\* each of the three periods returns predictedValue 100, trend stable and no
\* drift.
C14_ConstantHistoryIsStable ==
    (ret.op = "forecastMTTR" /\ ~ret.storageFailed /\ ConstantHistory) =>
        /\ ret.result.predictedValue = 100 * FP
        /\ ret.result.trend = "stable"
        /\ ret.result.driftDetected = FALSE

\* the time series the latest forecast call built from the store
HandedSeries ==
    IF ret.op = "forecastMTTR" THEN MttrSeries(mttrRecords) ELSE DailySeries(incidentMetrics)

\* C15: a forecast call whose time series has fewer than 15 samples returns
\* the default result and does not run the models.
C15_ShortSeriesGetsDefault ==
    (Forecasted /\ ~ret.storageFailed /\ Len(HandedSeries) < 15) =>
        /\ ~ret.ranModels
        /\ ret.result = createDefaultForecast(ret.result.metric, ret.period)

\* the latest forecast call could not read the store, or found fewer than 15
\* resolved records (forecastMTTR) or incidents (forecastIncidentVolume) in it
DegradedCall ==
    /\ Forecasted
    /\ \/ ret.storageFailed
       \/ ret.op = "forecastMTTR" /\ Len(ResolvedRecords(mttrRecords)) < 15
       \/ ret.op = "forecastIncidentVolume" /\ Len(incidentMetrics) < 15

\* confidence 50, trend stable, no drift, and zero for the current and
\* predicted values, the change, both interval bounds and the strength
DefaultButAccuracy(result) ==
    /\ result.confidence = 50
    /\ result.trend = "stable"
    /\ result.driftDetected = FALSE
    /\ result.currentValue = 0
    /\ result.predictedValue = 0
    /\ result.changePercent = 0
    /\ result.predictionInterval = [lower |-> 0, upper |-> 0]
    /\ result.seasonalityStrength = 0

\* C16 as stated: a forecast call that cannot read the store or finds too
\* little data returns a result with confidence 50, trend stable, no drift and
\* every other number zero, modelAccuracy included.
C16_DefaultAllZero ==
    DegradedCall => DefaultButAccuracy(ret.result) /\ ret.result.modelAccuracy = 0

\* C16: a forecast call that cannot read the store or finds too little data
\* returns a result with confidence 50, trend stable, no drift, modelAccuracy
\* 20 and every other number zero.
C16_DefaultWithAccuracyTwenty ==
    DegradedCall => DefaultButAccuracy(ret.result) /\ ret.result.modelAccuracy = 20 * FP

\* the store failed on a call for which 15 or more resolved records are stored
C16_Witness ==
    /\ ret.op = "forecastMTTR"
    /\ ret.storageFailed
    /\ Len(ResolvedRecords(mttrRecords)) >= 15
    /\ ret.result.modelAccuracy = 20 * FP
    /\ ret.result.confidence = 50

Decomposed == ret.op = "decomposeTimeSeries"

DriftTested == ret.op = "detectDrift"

\* C17: for a series of fewer than 14 samples the decomposition returns the
\* input values as trend, zeros as seasonal and residual and strength 0; for a
\* series of fewer than 20 samples the drift test returns false.
C17_SmallInputDefaults ==
    /\ (Decomposed /\ Len(series) < 14) =>
          /\ ret.result.trend = [i \in 1..Len(series) |-> series[i].value * FP]
          /\ ret.result.seasonal = [i \in 1..Len(series) |-> 0]
          /\ ret.result.residual = [i \in 1..Len(series) |-> 0]
          /\ ret.result.strength = 0
    /\ (DriftTested /\ Len(series) < 20) => ret.result = FALSE

\* the drift test ran on 19 samples whose last third lies above the rest
C17_Witness ==
    /\ DriftTested
    /\ Len(series) = 19
    /\ \A i \in 1..13 : series[i].value = 10
    /\ \A i \in 14..19 : series[i].value = 20
    /\ ret.result = FALSE

\* C18: the decomposition of a series of n samples returns a trend, a
\* seasonal and a residual sequence of n entries each, and at every index the
\* three add up to the input value.
C18_DecompositionAddsUp ==
    Decomposed =>
        /\ Len(ret.result.trend) = Len(series)
        /\ Len(ret.result.seasonal) = Len(series)
        /\ Len(ret.result.residual) = Len(series)
        /\ \A i \in 1..Len(series) :
              ret.result.trend[i] + ret.result.seasonal[i] + ret.result.residual[i]
                  = series[i].value * FP

\* 14 or more samples were decomposed into a seasonal and a residual
\* component that are not zero
C18_Witness ==
    /\ Decomposed
    /\ Len(series) >= 14
    /\ \E i \in 1..Len(series) : ret.result.seasonal[i] # 0
    /\ \E i \in 1..Len(series) : ret.result.residual[i] # 0

\* floor(0.7 * n), the split point the claim names
ClaimedSplit == (7 * Len(series)) \div 10

\* |mean(recent) - mean(early)| > 0.3 * std(early) on the claimed windows,
\* cross-multiplied as in DriftShifted
DriftClaimed ==
    LET early == Values(Slice(series, 0, ClaimedSplit))
        recent == Values(Slice(series, ClaimedSplit, Len(series)))
        ne == Len(early)
        nr == Len(recent)
        shift == Abs(Sum(recent) * ne - Sum(early) * nr)
        Ve == ne * SumSq(early) - Sum(early) * Sum(early)
    IN 100 * shift * shift > DriftThresholdTenths * DriftThresholdTenths * nr * nr * Ve

\* C19: on a series of at least 20 samples drift is reported exactly when the
\* mean of the samples after the first floor(0.7 * n) differs from the mean of
\* those first samples by more than 0.3 times their population standard
\* deviation.
C19_DriftIffShiftBeyondThreshold ==
    (DriftTested /\ Len(series) >= 20) => (ret.result = DriftClaimed)

----------------------------------------------------------------------------
\* Claims about the rate limiter

\* the calls of the key answered allowed = true in the hour that ends now
AllowedInWindow(key) ==
    LET recent == StillRecent(recentAllowed[key], now - WindowMinutes)
    IN Sum([i \in 1..Len(recent) |-> recent[i].count])

\* the same count before the latest call was answered
AllowedBeforeCall ==
    AllowedInWindow(limitRet.key) - (IF limitRet.allowed THEN 1 ELSE 0)

\* C20: for every key no hour contains more than 100 calls answered
\* allowed = true, and a call made when 100 calls of its key were allowed in
\* the hour before it is answered allowed = false with remaining = 0.
C20_AtMostLimitPerSlidingHour ==
    /\ \A key \in RateKeys : AllowedInWindow(key) <= Limit
    /\ (limitRet.called /\ limitRet.at = now /\ AllowedBeforeCall >= Limit) =>
          (~limitRet.allowed /\ limitRet.remaining = 0)

----------------------------------------------------------------------------
\* Claims about the steps of the forecasting engine

\* n times the deviation of a value from the mean of the series at hand
SeriesDeviation(val) == Len(series) * val - Sum(Values(series))

\* n * n times the population variance of the series at hand
SeriesSpread == Len(series) * SumSq(Values(series)) - Sum(Values(series)) * Sum(Values(series))

\* the element at index floor(quarters * n / 4) of the sorted values
SeriesQuartile(quarters) ==
    SortSeq(Values(series), LAMBDA a, b : a < b)[(quarters * Len(series)) \div 4 + 1]

\* value < Q1 - 1.5 * IQR or value > Q3 + 1.5 * IQR
OutsideFences(val) ==
    LET q1 == SeriesQuartile(1)
        q3 == SeriesQuartile(3)
    IN \/ 2 * val < 2 * q1 - 3 * (q3 - q1)
       \/ 2 * val > 2 * q3 + 3 * (q3 - q1)

\* |value - mean| / std > 3, the division being by 1 when std is 0
FarFromMean(val) ==
    IF SeriesSpread = 0 THEN Abs(SeriesDeviation(val)) > 3 * Len(series)
    ELSE SeriesDeviation(val) * SeriesDeviation(val) > 9 * SeriesSpread

\* |value - mean| / max(std, 1) > 3
FarFromMeanAgainstOne(val) ==
    IF SeriesSpread < Len(series) * Len(series)
    THEN Abs(SeriesDeviation(val)) > 3 * Len(series)
    ELSE SeriesDeviation(val) * SeriesDeviation(val) > 9 * SeriesSpread

\* C22 as stated: in a series of at least 10 samples a sample is moved to
\* outliers exactly when |value - mean| / max(std, 1) > 3 or the value lies
\* outside the fences Q1 - 1.5 * IQR and Q3 + 1.5 * IQR.
C22_OutlierRuleStdAtLeastOne ==
    (Cleaned /\ Len(series) >= 10) =>
        ret.result.outliers =
            SelectSeq(series, LAMBDA p : FarFromMeanAgainstOne(p.value) \/ OutsideFences(p.value))

\* C22 amended: in a series of at least 10 samples a sample is moved to
\* outliers exactly when |value - mean| / std > 3, with 1 in the place of a
\* std of 0, or the value lies outside the fences Q1 - 1.5 * IQR and
\* Q3 + 1.5 * IQR; every other sample is kept in cleaned.
C22_OutlierRuleStdOrOne ==
    (Cleaned /\ Len(series) >= 10) =>
        /\ ret.result.outliers =
              SelectSeq(series, LAMBDA p : FarFromMean(p.value) \/ OutsideFences(p.value))
        /\ ret.result.cleaned =
              SelectSeq(series, LAMBDA p : ~(FarFromMean(p.value) \/ OutsideFences(p.value)))

\* twenty samples with a std below 1 were cleaned and the one sample moved
\* to outliers lies within the fences and less than 3 from the mean
C22_Witness ==
    /\ Cleaned
    /\ Len(series) = 20
    /\ SeriesSpread > 0
    /\ SeriesSpread < 400
    /\ Len(ret.result.outliers) = 1
    /\ ~OutsideFences(ret.result.outliers[1].value)
    /\ Abs(SeriesDeviation(ret.result.outliers[1].value)) < 60

Engineered == ret.op = "engineerFeatures"

\* the value the claim names for position i (from 1) of a lag of k places
ClaimedLag(k, i) == IF i <= k THEN series[1].value ELSE series[i - k].value

\* C23: for a series of any length n the feature engineer returns values,
\* lag1, lag7, rollingMean7 and rollingStd7 of length n each; lag1 and lag7
\* hold the value 1 and 7 places earlier, and the first value where there is
\* none.
C23_FeaturesAlignedWithInput ==
    Engineered =>
        /\ Len(ret.result.values) = Len(series)
        /\ Len(ret.result.lag1) = Len(series)
        /\ Len(ret.result.lag7) = Len(series)
        /\ Len(ret.result.rollingMean7) = Len(series)
        /\ Len(ret.result.rollingStd7) = Len(series)
        /\ \A i \in 1..Len(series) :
              /\ ret.result.lag1[i] = ClaimedLag(1, i)
              /\ ret.result.lag7[i] = ClaimedLag(7, i)

AccuracyMeasured == ret.op = "calculateMAPE"

\* the window the claim names: the trailing fifth of the series, seven
\* points at least (and no more than the points that have a predecessor)
ClaimedValidationSize == Min(Max(MapeWindow, Len(series) \div 5), Len(series) - 1)

\* the error of the naive forecast at position i (from 1), relative to the
\* actual value (to 1 where the actual value is 0), in units of 1/FP
NaiveError(i) ==
    (Abs(series[i].value - series[i - 1].value) * FP)
        \div (IF series[i].value = 0 THEN 1 ELSE Abs(series[i].value))

\* the mean of the naive errors over the claimed window, in percent, capped
ClaimedMape ==
    LET size == ClaimedValidationSize
        total == Sum([k \in 1..size |-> NaiveError(Len(series) - size + k)])
    IN Min((total * 100) \div size, MapeCap * FP)

\* C24: on a series of 10 points or more the model accuracy is the mean
\* absolute percentage error of the forecast value[i-1] for value[i] over the
\* trailing 20% of the series, 7 points at least; on a shorter series it is 20.
C24_MapeOfNaiveForecast ==
    AccuracyMeasured =>
        ret.result = IF Len(series) < MapeMinPoints THEN MapeDefault * FP ELSE ClaimedMape

\* the sums of the least-squares fit of value[t] on value[t-1] over the
\* pairs of the series at hand
PairCount == Len(series) - 1
PairSumX == Sum([k \in 1..PairCount |-> series[k].value])
PairSumY == Sum([k \in 1..PairCount |-> series[k + 1].value])
PairSumXY == Sum([k \in 1..PairCount |-> series[k].value * series[k + 1].value])
PairSumX2 == Sum([k \in 1..PairCount |-> series[k].value * series[k].value])
PairSpread == PairCount * PairSumX2 - PairSumX * PairSumX

\* the slope and the intercept of that fit, in units of 1/FP
LeastSquaresPhi == Quot((PairCount * PairSumXY - PairSumX * PairSumY) * FP, PairSpread)
LeastSquaresC == (PairSumY * FP - LeastSquaresPhi * PairSumX) \div PairCount

\* the prediction the claim names, in units of 1/FP
ClaimedArima ==
    LET n == Len(series)
        features == engineerFeatures(series)
        lastRollingMean == IF features.rollingMean7[n] = 0 THEN series[n].value * FP
                           ELSE features.rollingMean7[n]
        arPrediction == LeastSquaresPhi * series[n].value + LeastSquaresC
    IN Max(0, (6 * arPrediction + 4 * lastRollingMean) \div 10)

\* C25: on a series of 10 points or more the autoregressive prediction is
\* max(0, 0.6 * (phi * last + c) + 0.4 * lastRollingMean7) with phi and c the
\* least-squares fit of value[t] = phi * value[t-1] + c over the n - 1 pairs
\* (checked where the pairs determine a fit).
C25_ArimaIsLeastSquaresFit ==
    (ModelsRun /\ Len(series) >= ArimaMinPoints /\ PairSpread # 0) =>
        ret.arima = ClaimedArima

----------------------------------------------------------------------------
\* Claims about the stored incident list under concurrent analyses

\* the analysis of incident k has read the list and not yet written it
WriteInFlight(k) ==
    \E p \in Procs :
        /\ pc[p] = "got"
        /\ trimmedMetrics[p][Len(trimmedMetrics[p])].issueKey = k

\* C26: every analysis that has written 'incident-metrics' has its record in
\* the list, however the analyses interleave, as long as fewer than 100 newer
\* records exist; the list never holds more than 100 entries.
C26_EveryAnalysisRecorded ==
    /\ Len(incidentMetrics) <= MetricsCap
    /\ started < MetricsCap =>
          \A k \in 1..started : WriteInFlight(k) \/ k \in KeysAt(Indices)

----------------------------------------------------------------------------
\* Claims about the time span of a pattern

\* the timestamps of the stored incidents a pattern names
GroupTimes(pattern) ==
    {incidentMetrics[i].timestamp :
        i \in {j \in Indices : incidentMetrics[j].issueKey \in pattern.affectedComponents}}

\* C30: whatever the order of the stored list, every pattern detectPatterns
\* returns has the earliest timestamp of its group as firstSeen and the latest
\* as lastSeen, so firstSeen <= lastSeen.
C30_SeenSpansGroup ==
    FullRun =>
        \A k \in 1..Len(detectResult.patterns) :
            LET pattern == detectResult.patterns[k]
            IN /\ \A t \in GroupTimes(pattern) :
                     pattern.firstSeen <= t /\ t <= pattern.lastSeen
               /\ pattern.firstSeen \in GroupTimes(pattern)
               /\ pattern.lastSeen \in GroupTimes(pattern)
               /\ pattern.firstSeen <= pattern.lastSeen

----------------------------------------------------------------------------
\* Claims about the job queue

\* the stored job of an id
JobOf(queue, jobId) == queue[FindJob(queue, jobId)]

PendingJobs(queue) == {i \in 1..Len(queue) : queue[i].status = "pending"}

\* job a goes before job b: the higher priority, then the earlier enqueue
GoesBefore(a, b) ==
    \/ priorityOrder[a.priority] > priorityOrder[b.priority]
    \/ priorityOrder[a.priority] = priorityOrder[b.priority] /\ a.id <= b.id

\* the call has started the job of this id: one more attempt is counted
StartedNow(jobId) ==
    /\ jobRet'.started = jobId
    /\ JobOf(jobQueue', jobId).attempts = JobOf(jobQueue, jobId).attempts + 1

\* C21: with calls that do not overlap, processNext starts a pending job that
\* goes before every other pending job (higher priority first, the earlier
\* enqueued among equals), and starts nothing only when no job is pending.
C21_StartsFirstInPriorityOrder ==
    [][ProcessNext =>
          IF PendingJobs(jobQueue) = {}
          THEN jobRet'.started = 0 /\ jobQueue' = jobQueue
          ELSE \E i \in PendingJobs(jobQueue) :
                  /\ \A j \in PendingJobs(jobQueue) : GoesBefore(jobQueue[i], jobQueue[j])
                  /\ StartedNow(jobQueue[i].id)]_vars

\* processNext has started a job enqueued after one that is still pending
C21_Witness ==
    /\ jobRet.op = "processNext"
    /\ jobRet.started # 0
    /\ \E i \in PendingJobs(jobQueue) :
          /\ jobQueue[i].id < jobRet.started
          /\ jobQueue[i].attempts = 0

\* the executions in progress: the workers between the write of the running
\* mark and the write of the outcome
InProgress == {w \in Workers : workerPc[w] = "executing"}

\* C27: however processNext, enqueue and cancelJob calls interleave, at most
\* maxConcurrentJobs executions are in progress.
C27_AtMostMaxConcurrent == Cardinality(InProgress) <= maxConcurrentJobs

\* the latest call was a processNext whose execution failed
FailedExecution(ret2) == ret2.op = "processNext" /\ ret2.started # 0 /\ ret2.returned = "null"

\* C28: with calls that do not overlap, a job whose execution fails is pending
\* again while its attempts are below maxAttempts and failed once they reach
\* it; no job has more attempts than maxAttempts; a failed job is not started
\* again.
C28_RetryUntilMaxAttempts ==
    [][/\ \A i \in 1..Len(jobQueue') : jobQueue'[i].attempts <= jobQueue'[i].maxAttempts
       /\ (ProcessNext /\ FailedExecution(jobRet')) =>
             LET job == JobOf(jobQueue', jobRet'.started)
             IN job.status = (IF job.attempts < job.maxAttempts THEN "pending" ELSE "failed")
       /\ \A i \in 1..Len(jobQueue) :
             jobQueue[i].status = "failed" =>
                 JobOf(jobQueue', jobQueue[i].id).attempts = jobQueue[i].attempts]_vars

\* a job has failed for good on its third attempt
C28_Witness ==
    /\ FailedExecution(jobRet)
    /\ JobOf(jobQueue, jobRet.started).status = "failed"
    /\ JobOf(jobQueue, jobRet.started).attempts = defaultMaxAttempts

TerminalStatuses == {"completed", "failed", "cancelled"}

\* C29: once a job is completed, failed or cancelled, no later enqueue,
\* processNext or cancelJob call changes its status or its completedAt.
C29_TerminalStatesStay ==
    [][\A i \in 1..Len(jobQueue) :
          jobQueue[i].status \in TerminalStatuses =>
              /\ JobOf(jobQueue', jobQueue[i].id).status = jobQueue[i].status
              /\ JobOf(jobQueue', jobQueue[i].id).completedAt = jobQueue[i].completedAt]_vars

====
